---- MODULE Spec2Model ----
(***************************************************************************)
(* A model of vs_tiletools.py: the geometry and frame-property contract of *)
(* pad/crop, tile/untile, window/unwindow, tpad/trim and crossfade.        *)
(*                                                                         *)
(* A clip is a record [err, width, height, fmt, frames].  err is "" for a  *)
(* clip and the exception's name once a call has raised; every operation   *)
(* passes a raised clip on unchanged, as Python's exception does.          *)
(* A frame is [img, props]: img is a sequence of rows of pixels, props the *)
(* frame properties the library reads and writes.  A pixel is tracked by   *)
(* provenance: <<"o", f, x, y>> is the sample at (x, y) of source frame f; *)
(* <<"s">> is a sample synthesised by a border fill; <<"r">> one produced  *)
(* by an external resize; <<"x", a, b, m, q>> the merge of a and b under   *)
(* mask level m out of q.  Sample values themselves are not modelled.      *)
(***************************************************************************)
EXTENDS Integers, Sequences, FiniteSets, TLC

VARIABLES src, cur, hist

vars == <<src, cur, hist>>

-----------------------------------------------------------------------------
(* Bounds of the model.                                                    *)

MaxW == 3
MaxH == 2
MaxPad == 2
MaxScale == 2
MaxTW == 5
MaxTH == 3
MaxTile == 3
MaxNewTile == 3
MaxFrames == 2

-----------------------------------------------------------------------------
(* Python arithmetic.                                                      *)

Min(a, b) == IF a <= b THEN a ELSE b
Max(a, b) == IF a >= b THEN a ELSE b

\* Python 3 round() of the quotient num / den (num >= 0, den > 0): to the
\* nearest integer, a tie going to the even neighbour.
PyRound(num, den) ==
    LET q == num \div den
        r == num % den
    IN  IF 2 * r < den THEN q
        ELSE IF 2 * r > den THEN q + 1
        ELSE IF q % 2 = 0 THEN q ELSE q + 1

\* Python slices clip[a:b] on a sequence (0-based, end exclusive, clamped).
PySlice(s, a, b) ==
    LET lo == Max(0, Min(a, Len(s)))
        hi == Max(lo, Min(b, Len(s)))
    IN  SubSeq(s, lo + 1, hi)

RECURSIVE ConcatRange(_, _, _)
ConcatRange(ss, lo, hi) ==
    IF lo > hi THEN <<>>
    ELSE IF lo = hi THEN ss[lo]
    ELSE ConcatRange(ss, lo, (lo + hi) \div 2) \o ConcatRange(ss, (lo + hi) \div 2 + 1, hi)

\* the sequences of ss one after the other
Concat(ss) == ConcatRange(ss, 1, Len(ss))

-----------------------------------------------------------------------------
(* Formats: the fields of vs.VideoFormat the library reads.                *)

GRAY8    == [name |-> "GRAY8",    family |-> "GRAY", st |-> "INTEGER", bits |-> 8,
             ssw |-> 0, ssh |-> 0, planes |-> 1]
YUV420P8 == [name |-> "YUV420P8", family |-> "YUV",  st |-> "INTEGER", bits |-> 8,
             ssw |-> 1, ssh |-> 1, planes |-> 3]
YUV422P16 == [name |-> "YUV422P16", family |-> "YUV", st |-> "INTEGER", bits |-> 16,
             ssw |-> 1, ssh |-> 0, planes |-> 3]
RGBS     == [name |-> "RGBS",     family |-> "RGB",  st |-> "FLOAT",   bits |-> 32,
             ssw |-> 0, ssh |-> 0, planes |-> 3]

Pow2(n) == IF n = 0 THEN 1 ELSE IF n = 1 THEN 2 ELSE 4

SubW(fmt) == Pow2(fmt.ssw)
SubH(fmt) == Pow2(fmt.ssh)

-----------------------------------------------------------------------------
(* Pixels, frames, clips.                                                  *)

Orig(f, x, y) == <<"o", f, x, y>>
Synth == <<"s">>
Resampled == <<"r">>

NoProps == [pad |-> <<>>, tile |-> <<>>, win |-> <<>>, tpad |-> <<>>]

SourceImg(f, w, h) == [y \in 1..h |-> [x \in 1..w |-> Orig(f, x - 1, y - 1)]]

SourceClip(fmt, w, h, n) ==
    [err |-> "", width |-> w, height |-> h, fmt |-> fmt,
     frames |-> [f \in 1..n |-> [img |-> SourceImg(f - 1, w, h), props |-> NoProps]]]

Raise(e) == [err |-> e, width |-> 0, height |-> 0, fmt |-> GRAY8, frames |-> <<>>]

ImgW(img) == IF Len(img) = 0 THEN 0 ELSE Len(img[1])
ImgH(img) == Len(img)

\* pixel (x, y), 0-based, of an image
Px(img, x, y) == img[y + 1][x + 1]

-----------------------------------------------------------------------------
(* The VapourSynth core functions the library calls, by their effect on    *)
(* dimensions, pixel positions and frame properties.                       *)

CropImg(img, l, r, t, b) ==
    [y \in 1..(ImgH(img) - t - b) |-> SubSeq(img[y + t], l + 1, ImgW(img) - r)]

\* a crop that takes margins off the subsampling grid
Crop_Unchecked(clip, l, r, t, b) ==
    IF clip.err # "" THEN clip
    ELSE IF l < 0 \/ r < 0 \/ t < 0 \/ b < 0 \/ l + r >= clip.width \/ t + b >= clip.height
         THEN Raise("vs.Error")
    ELSE [[clip EXCEPT !.frames = [i \in 1..Len(clip.frames) |->
            [clip.frames[i] EXCEPT !.img = CropImg(clip.frames[i].img, l, r, t, b)]]]
            EXCEPT !.width = clip.width - l - r, !.height = clip.height - t - b]

\* core.std.Crop: rejects negative margins, an empty result and margins off
\* the chroma grid.
Crop(clip, l, r, t, b) ==
    IF clip.err # "" THEN clip
    ELSE IF \/ l < 0 \/ r < 0 \/ t < 0 \/ b < 0
            \/ l + r >= clip.width \/ t + b >= clip.height
            \/ l % SubW(clip.fmt) # 0 \/ r % SubW(clip.fmt) # 0
            \/ t % SubH(clip.fmt) # 0 \/ b % SubH(clip.fmt) # 0
         THEN Raise("vs.Error")
    ELSE [[clip EXCEPT !.frames = [i \in 1..Len(clip.frames) |->
            [clip.frames[i] EXCEPT !.img = CropImg(clip.frames[i].img, l, r, t, b)]]]
            EXCEPT !.width = clip.width - l - r, !.height = clip.height - t - b]

\* core.std.CropAbs(clip, width, height, left, top)
CropAbs(clip, w, h, l, t) == Crop(clip, l, clip.width - l - w, t, clip.height - t - h)

AddBordersImg(img, l, r, t, b, p) ==
    LET w    == ImgW(img) + l + r
        full == [x \in 1..w |-> p]
        row(y) == [x \in 1..l |-> p] \o img[y] \o [x \in 1..r |-> p]
    IN  [y \in 1..t |-> full] \o [y \in 1..ImgH(img) |-> row(y)] \o [y \in 1..b |-> full]

\* core.std.AddBorders: the border holds the colour, the inside is untouched.
AddBorders(clip, l, r, t, b, p) ==
    IF clip.err # "" THEN clip
    ELSE IF \/ l < 0 \/ r < 0 \/ t < 0 \/ b < 0
            \/ l % SubW(clip.fmt) # 0 \/ r % SubW(clip.fmt) # 0
            \/ t % SubH(clip.fmt) # 0 \/ b % SubH(clip.fmt) # 0
         THEN Raise("vs.Error")
    ELSE [[clip EXCEPT !.frames = [i \in 1..Len(clip.frames) |->
            [clip.frames[i] EXCEPT !.img = AddBordersImg(clip.frames[i].img, l, r, t, b, p)]]]
            EXCEPT !.width = clip.width + l + r, !.height = clip.height + t + b]

\* core.fb.FillBorders: rewrites the l/r/t/b outermost columns and rows from
\* the inside of the frame; the content is the plugin's.
FillBordersImg(img, l, r, t, b) ==
    [y \in 1..ImgH(img) |-> [x \in 1..ImgW(img) |->
        IF x <= l \/ x > ImgW(img) - r \/ y <= t \/ y > ImgH(img) - b
        THEN Synth ELSE img[y][x]]]

FillBorders(clip, l, r, t, b) ==
    IF clip.err # "" THEN clip
    ELSE [clip EXCEPT !.frames = [i \in 1..Len(clip.frames) |->
            [clip.frames[i] EXCEPT !.img = FillBordersImg(clip.frames[i].img, l, r, t, b)]]]

\* core.resize.Point(clip, format=...): a change of sample format; positions
\* and properties stay.
ConvertFormat(clip, fmt) == IF clip.err # "" THEN clip ELSE [clip EXCEPT !.fmt = fmt]

RECURSIVE StackHImgs(_)
StackHImgs(imgs) ==
    IF Len(imgs) = 1 THEN imgs[1]
    ELSE LET rest == StackHImgs(Tail(imgs))
         IN  [y \in 1..ImgH(imgs[1]) |-> imgs[1][y] \o rest[y]]

FirstErr(clips) ==
    IF \E i \in 1..Len(clips) : clips[i].err # ""
    THEN clips[CHOOSE i \in 1..Len(clips) :
                 /\ clips[i].err # ""
                 /\ \A j \in 1..(i - 1) : clips[j].err = ""].err
    ELSE ""

RECURSIVE SumWidth(_)
SumWidth(clips) == IF Len(clips) = 0 THEN 0 ELSE clips[1].width + SumWidth(Tail(clips))

RECURSIVE SumHeight(_)
SumHeight(clips) == IF Len(clips) = 0 THEN 0 ELSE clips[1].height + SumHeight(Tail(clips))

\* core.std.StackHorizontal: equal heights and lengths are required; frame n
\* of the result carries the properties of the first clip's frame n.
StackHorizontal(clips) ==
    IF FirstErr(clips) # "" THEN Raise(FirstErr(clips))
    ELSE IF \E i \in 1..Len(clips) :
               \/ clips[i].height # clips[1].height
               \/ Len(clips[i].frames) # Len(clips[1].frames)
         THEN Raise("vs.Error")
    ELSE [clips[1] EXCEPT
            !.width  = SumWidth(clips),
            !.frames = [n \in 1..Len(clips[1].frames) |->
                          [img   |-> StackHImgs([i \in 1..Len(clips) |-> clips[i].frames[n].img]),
                           props |-> clips[1].frames[n].props]]]

\* core.std.StackVertical
StackVertical(clips) ==
    IF FirstErr(clips) # "" THEN Raise(FirstErr(clips))
    ELSE IF \E i \in 1..Len(clips) :
               \/ clips[i].width # clips[1].width
               \/ Len(clips[i].frames) # Len(clips[1].frames)
         THEN Raise("vs.Error")
    ELSE [clips[1] EXCEPT
            !.height = SumHeight(clips),
            !.frames = [n \in 1..Len(clips[1].frames) |->
                          [img   |-> Concat([i \in 1..Len(clips) |-> clips[i].frames[n].img]),
                           props |-> clips[1].frames[n].props]]]

\* [clip] * n
Times(c, n) == [i \in 1..n |-> c]

\* a property write that leaves the clip as it was
SetFrameProp_Skip(clip, key, cfg) == clip

\* core.std.SetFrameProp(clip, prop=key, data=[json]): on every frame.  The
\* record stands for the JSON text: json.dumps of a flat dict of ints, bools
\* and strings followed by json.loads gives the dict back.
SetFrameProp(clip, key, cfg) ==
    IF clip.err # "" THEN clip
    ELSE [clip EXCEPT !.frames = [i \in 1..Len(clip.frames) |->
            [clip.frames[i] EXCEPT !.props = [clip.frames[i].props EXCEPT ![key] = <<cfg>>]]]]

\* a property removal that leaves the clip as it was
RemoveFrameProps_Keep(clip, key) == clip

\* core.std.RemoveFrameProps(clip, props=[key])
RemoveFrameProps(clip, key) ==
    IF clip.err # "" THEN clip
    ELSE [clip EXCEPT !.frames = [i \in 1..Len(clip.frames) |->
            [clip.frames[i] EXCEPT !.props = [clip.frames[i].props EXCEPT ![key] = <<>>]]]]

\* a lookup that falls back to the geometry of a 1x1, one-frame clip
GetRecord_Default(f0, key) ==
    IF f0.props[key] # <<>> THEN f0.props[key]
    ELSE <<[orig_w |-> 1, orig_h |-> 1, pad_l |-> 0, pad_r |-> 0, pad_t |-> 0, pad_b |-> 0,
            tile_w |-> 1, tile_h |-> 1, overlap_w |-> 0, overlap_h |-> 0, discard |-> FALSE,
            orig_length |-> 1, window_length |-> 1, overlap |-> 0, padding |-> "none",
            start_pad |-> 0, end_pad |-> 0]>>

\* f0.get(key): the record of that kind on a frame, None when it has none
GetRecord(f0, key) == f0.props[key]

\* a copy that leaves the clip's own properties in place
CopyFrameProps_Keep(clip, psrc) == clip

\* core.std.CopyFrameProps(clip, prop_src) without a props list: frame n of
\* the result has exactly the properties of prop_src's frame n (its last frame
\* past the end).
CopyFrameProps(clip, psrc) ==
    IF clip.err # "" THEN clip
    ELSE IF psrc.err # "" THEN psrc
    ELSE [clip EXCEPT !.frames = [n \in 1..Len(clip.frames) |->
            [clip.frames[n] EXCEPT !.props = psrc.frames[Min(n, Len(psrc.frames))].props]]]

\* A mask sample: level num / den of the peak value.
MaskPx(num, den) == <<"m", num, den>>

MergePx(a, b, m) ==
    IF m[2] = 0 THEN a
    ELSE IF m[2] = m[3] THEN b
    ELSE IF a = b THEN a
    ELSE <<"x", a, b, m[2], m[3]>>

\* core.std.MaskedMerge(clipa, clipb, mask, first_plane=True) and the Expr
\* that stands in for it on half-float clips (line 78): a where the mask is
\* 0, b where it is at its peak, the weighted mix between.
MaskedMergeImg(a, b, m) ==
    [y \in 1..ImgH(a) |-> [x \in 1..ImgW(a) |-> MergePx(a[y][x], b[y][x], m[y][x])]]

\* frame n (1-based) of a clip, the last frame when n is past the end
FrameAt(clip, n) == clip.frames[Min(n, Len(clip.frames))]

MaskedMerge(clipa, clipb, mask) ==
    IF FirstErr(<<clipa, clipb, mask>>) # "" THEN Raise(FirstErr(<<clipa, clipb, mask>>))
    ELSE IF \/ clipa.width # clipb.width \/ clipa.height # clipb.height
            \/ clipa.width # mask.width \/ clipa.height # mask.height
         THEN Raise("vs.Error")
    ELSE [clipa EXCEPT !.frames = [n \in 1..Len(clipa.frames) |->
            [clipa.frames[n] EXCEPT !.img =
                MaskedMergeImg(clipa.frames[n].img, FrameAt(clipb, n).img, FrameAt(mask, n).img)]]]

\* core.std.BlankClip(clip, width=w, height=h, color=p, keep=True)
BlankClip(clip, w, h, p) ==
    IF clip.err # "" THEN clip
    ELSE [clip EXCEPT !.width = w, !.height = h,
            !.frames = [n \in 1..Len(clip.frames) |->
                          [img |-> [y \in 1..h |-> [x \in 1..w |-> p]], props |-> NoProps]]]

\* core.cv_inpaint.Inpaint*(clip, mask): the samples under the mask are
\* synthesised, the others kept.
Inpaint(clip, mask) ==
    IF FirstErr(<<clip, mask>>) # "" THEN Raise(FirstErr(<<clip, mask>>))
    ELSE [clip EXCEPT !.frames = [n \in 1..Len(clip.frames) |->
            [clip.frames[n] EXCEPT !.img =
                [y \in 1..clip.height |-> [x \in 1..clip.width |->
                    IF FrameAt(mask, n).img[y][x][2] # 0 THEN Synth
                    ELSE clip.frames[n].img[y][x]]]]]]

-----------------------------------------------------------------------------
(* Arguments.  None is <<>>, a given value v is <<v>>.  A padding mode is  *)
(* [kind, s, v]: kind "str" with the string s, kind "list" with the values *)
(* v, kind "real" with the one value in v, or kind "none".                 *)

None == <<>>
Some(v) == <<v>>
IsNone(o) == Len(o) = 0
Val(o) == o[1]

StrMode(str) == [kind |-> "str", s |-> str, v |-> <<>>]
ListMode(vals) == [kind |-> "list", s |-> "", v |-> vals]
RealMode(x) == [kind |-> "real", s |-> "", v |-> <<x>>]
NoneMode == [kind |-> "none", s |-> "", v |-> <<>>]

IsStr(mode, names) == mode.kind = "str" /\ mode.s \in names

fb_modes == {"repeat", "mirror", "fillmargins", "fixborders"}
cv_modes == {"telea", "ns", "fsr"}

-----------------------------------------------------------------------------
(* Helpers of the library.                                                 *)

\* _check_modulus raises
BadModulus(value, subsampling) == subsampling > 1 /\ value % subsampling # 0

\* _normalize_color: [r |-> "none"] for None, [r |-> "false"] for False,
\* [r |-> "raise"] for a ValueError, [r |-> "vals", vals |-> ...] for a colour.
\* Float formats keep v / 255 as the pair <<v, 255>>.
_normalize_color(mode, clip_format) ==
    IF mode.kind = "none" \/ IsStr(mode, {"black", "none", "None"})
    THEN [r |-> "none", vals |-> <<>>]
    ELSE IF mode.kind \notin {"real", "list"} \/ Len(mode.v) = 0
    THEN [r |-> "false", vals |-> <<>>]
    ELSE LET raw  == mode.v
             np   == clip_format.planes
             vals == IF Len(raw) < np
                     THEN raw \o [i \in 1..(np - Len(raw)) |-> raw[Len(raw)]]
                     ELSE raw
             dst_max == 2^clip_format.bits - 1
         IN  IF Len(raw) > np THEN [r |-> "raise", vals |-> <<>>]
             ELSE IF \E i \in 1..Len(vals) : vals[i] < 0 \/ vals[i] > 255
             THEN [r |-> "raise", vals |-> <<>>]
             ELSE IF clip_format.st = "INTEGER"
             THEN [r |-> "vals", vals |-> [i \in 1..Len(vals) |-> PyRound(vals[i] * dst_max, 255)]]
             ELSE [r |-> "vals", vals |-> [i \in 1..Len(vals) |-> <<vals[i], 255>>]]

\* _maskedmerge: both of its branches merge sample by sample under the mask.
_maskedmerge(clipa, clipb, mask) == MaskedMerge(clipa, clipb, mask)

\* _fillborders with inwards=False (pad never passes inwards): the loop of
\* lines 96-108, at most one frame extent added per side and step.
RECURSIVE PingPong(_, _, _, _, _, _, _)
PingPong(clip, left, right, top, bottom, width, height) ==
    IF left = 0 /\ right = 0 /\ top = 0 /\ bottom = 0 THEN clip
    ELSE LET step_l == Min(left, width)
             step_r == Min(right, width)
             step_t == Min(top, height)
             step_b == Min(bottom, height)
             added  == AddBorders(clip, step_l, step_r, step_t, step_b, Synth)
             filled == FillBorders(added, step_l, step_r, step_t, step_b)
         IN  PingPong(filled, left - step_l, right - step_r, top - step_t, bottom - step_b,
                      width * 2, height * 2)

_fillborders(clip, left, right, top, bottom, mode) ==
    LET width  == clip.width
        height == clip.height
    IN  IF mode # "mirror" \/ (left <= width /\ right <= width /\ top <= height /\ bottom <= height)
        THEN FillBorders(AddBorders(clip, left, right, top, bottom, Synth), left, right, top, bottom)
        ELSE PingPong(clip, left, right, top, bottom, width, height)

\* core.query_video_format(family, vs.INTEGER, 16, subsampling_w, subsampling_h)
Int16Format(family, fmt) ==
    [name |-> "int16", family |-> family, st |-> "INTEGER", bits |-> 16,
     ssw |-> fmt.ssw, ssh |-> fmt.ssh, planes |-> fmt.planes]

_fillborders_padder(clip, left, right, top, bottom, mode) ==
    LET clip_format == clip.fmt
        broken_fillmargins == mode = "fillmargins" /\ clip_format.st = "INTEGER" /\ clip_format.bits < 12
        broken_fixborders  == mode = "fixborders" /\
                                ((clip_format.st = "INTEGER" /\ clip_format.bits # 16)
                                    \/ clip_format.family = "RGB")
        family    == IF mode = "fixborders" /\ clip_format.family = "RGB" THEN "YUV"
                     ELSE clip_format.family
        clip_fill == ConvertFormat(
                        _fillborders(ConvertFormat(clip, Int16Format(family, clip_format)),
                                     left, right, top, bottom, mode),
                        clip_format)
        bordered  == AddBorders(clip, left, right, top, bottom, Synth)
        mask      == AddBorders(BlankClip(bordered, bordered.width - left - right,
                                          bordered.height - top - bottom, MaskPx(0, 1)),
                                left, right, top, bottom, MaskPx(1, 1))
    IN  IF clip_format.st = "INTEGER" /\ ~(broken_fillmargins \/ broken_fixborders)
        THEN _fillborders(clip, left, right, top, bottom, mode)
        ELSE IF clip_format.st = "INTEGER" THEN clip_fill
        ELSE _maskedmerge(bordered, clip_fill, mask)

\* _cv_outpaint_padder with inwards=False
_cv_outpaint_padder(clip, left, right, top, bottom, mode) ==
    LET clip_format == clip.fmt
        mask     == AddBorders(BlankClip(ConvertFormat(clip, GRAY8), clip.width, clip.height,
                                         MaskPx(0, 255)),
                               left, right, top, bottom, MaskPx(255, 255))
        bordered == AddBorders(clip, left, right, top, bottom, Synth)
        clip_outpaint == ConvertFormat(Inpaint(bordered, mask), clip_format)
    IN  IF clip_format.name \in {"RGB24", "GRAY8"}
        THEN Inpaint(bordered, mask)
        ELSE _maskedmerge(bordered, clip_outpaint, mask)

-----------------------------------------------------------------------------
(* pad and crop.                                                           *)

\* the wrap branch of pad, lines 253-268
WrapPad(clip, left, right, top, bottom) ==
    LET orig_w == clip.width
        orig_h == clip.height
        tile_l == (left   + orig_w - 1) \div orig_w
        tile_r == (right  + orig_w - 1) \div orig_w
        tile_t == (top    + orig_h - 1) \div orig_h
        tile_b == (bottom + orig_h - 1) \div orig_h
        crop_l == tile_l * orig_w - left
        crop_r == tile_r * orig_w - right
        crop_t == tile_t * orig_h - top
        crop_b == tile_b * orig_h - bottom
        out1   == IF tile_l # 0 \/ tile_r # 0
                  THEN StackHorizontal(Times(clip, tile_l + 1 + tile_r)) ELSE clip
        out2   == IF tile_t # 0 \/ tile_b # 0
                  THEN StackVertical(Times(out1, tile_t + 1 + tile_b)) ELSE out1
    IN  Crop(out2, crop_l, crop_r, crop_t, crop_b)

\* the Pad Record with the left and right margins exchanged
PadCfg_Swapped(orig_w, orig_h, left, right, top, bottom) ==
    [orig_w |-> orig_w, orig_h |-> orig_h, pad_l |-> right, pad_r |-> left,
     pad_t |-> top, pad_b |-> bottom]

\* the Pad Record, lines 277-279
PadCfg(orig_w, orig_h, left, right, top, bottom) ==
    [orig_w |-> orig_w, orig_h |-> orig_h, pad_l |-> left, pad_r |-> right,
     pad_t |-> top, pad_b |-> bottom]

pad(clip, left, right, top, bottom, mode) ==
    LET clip_format == clip.fmt
        orig_w == clip.width
        orig_h == clip.height
        sub_w  == SubW(clip_format)
        sub_h  == SubH(clip_format)
        color  == _normalize_color(mode, clip_format)
        out    == IF left = 0 /\ right = 0 /\ top = 0 /\ bottom = 0 THEN clip
                  ELSE IF IsStr(mode, fb_modes)
                  THEN _fillborders_padder(clip, left, right, top, bottom, mode.s)
                  ELSE IF IsStr(mode, cv_modes)
                  THEN _cv_outpaint_padder(clip, left, right, top, bottom, mode.s)
                  ELSE IF IsStr(mode, {"wrap"})
                  THEN WrapPad(clip, left, right, top, bottom)
                  ELSE IF color.r = "raise" THEN Raise("ValueError")
                  ELSE IF color.r = "false" THEN Raise("TypeError")
                  ELSE AddBorders(clip, left, right, top, bottom, Synth)
    IN  IF clip.err # "" THEN clip
        ELSE IF Min(Min(left, right), Min(top, bottom)) < 0 THEN Raise("ValueError")
        ELSE IF \/ BadModulus(left, sub_w) \/ BadModulus(right, sub_w)
                \/ BadModulus(top, sub_h) \/ BadModulus(bottom, sub_h)
             THEN Raise("ValueError")
        ELSE SetFrameProp(out, "pad", PadCfg(orig_w, orig_h, left, right, top, bottom))

\* auto crop's margins taken from the Pad Record without rescaling
AutoCropMargins_Unscaled(cfg, width, height) ==
    [left |-> cfg.pad_l, right |-> cfg.pad_r, top |-> cfg.pad_t, bottom |-> cfg.pad_b]

\* the margins auto crop derives from the Pad Record, lines 318-336
AutoCropMargins(cfg, width, height) ==
    LET padded_width  == cfg.orig_w + cfg.pad_l + cfg.pad_r
        padded_height == cfg.orig_h + cfg.pad_t + cfg.pad_b
    IN  [left   |-> PyRound(cfg.pad_l * width,  padded_width),
         right  |-> PyRound(cfg.pad_r * width,  padded_width),
         top    |-> PyRound(cfg.pad_t * height, padded_height),
         bottom |-> PyRound(cfg.pad_b * height, padded_height)]

\* a margin left out read as 1
OrZero_One(o) == IF IsNone(o) THEN 1 ELSE Val(o)

\* 0 if x is None else int(x), lines 305-308
OrZero(o) == IF IsNone(o) THEN 0 ELSE Val(o)

\* crop(clip, left, right, top, bottom), each argument None or a value
crop(clip, left, right, top, bottom) ==
    LET clip_format == clip.fmt
        width  == clip.width
        height == clip.height
        sub_w  == SubW(clip_format)
        sub_h  == SubH(clip_format)
        manual == ~(IsNone(left) /\ IsNone(right) /\ IsNone(top) /\ IsNone(bottom))
        f0     == clip.frames[1]
        m      == IF manual
                  THEN [left |-> OrZero(left), right |-> OrZero(right),
                        top |-> OrZero(top), bottom |-> OrZero(bottom)]
                  ELSE AutoCropMargins(Val(GetRecord(f0, "pad")), width, height)
    IN  IF clip.err # "" THEN clip
        ELSE IF ~manual /\ IsNone(GetRecord(f0, "pad")) THEN Raise("KeyError")
        ELSE IF manual /\ Min(Min(m.left, m.right), Min(m.top, m.bottom)) < 0
             THEN Raise("ValueError")
        ELSE IF m.left = 0 /\ m.right = 0 /\ m.top = 0 /\ m.bottom = 0
             THEN RemoveFrameProps(clip, "pad")
        ELSE IF \/ BadModulus(m.left, sub_w) \/ BadModulus(m.right, sub_w)
                \/ BadModulus(m.top, sub_h) \/ BadModulus(m.bottom, sub_h)
             THEN Raise("ValueError")
        ELSE IF m.left + m.right >= width \/ m.top + m.bottom >= height
             THEN Raise("ValueError")
        ELSE RemoveFrameProps(Crop(clip, m.left, m.right, m.top, m.bottom), "pad")

\* An external resize of the whole clip between two calls of the library
\* (core.resize.*): new dimensions, resampled content, properties kept.
Resize(clip, w, h) ==
    IF clip.err # "" THEN clip
    ELSE IF w < 1 \/ h < 1 \/ w % SubW(clip.fmt) # 0 \/ h % SubH(clip.fmt) # 0
         THEN Raise("vs.Error")
    ELSE [clip EXCEPT !.width = w, !.height = h,
            !.frames = [i \in 1..Len(clip.frames) |->
                [clip.frames[i] EXCEPT !.img = [y \in 1..h |-> [x \in 1..w |-> Resampled]]]]]

-----------------------------------------------------------------------------
(* tile and untile.                                                        *)

max_tiles == 1024

\* the clips spliced one after the other instead of interleaved
Interleave_Spliced(clips) ==
    IF FirstErr(clips) # "" THEN Raise(FirstErr(clips))
    ELSE LET T == Len(clips)
             F == Len(clips[1].frames)
         IN  [clips[1] EXCEPT !.frames =
                [n \in 1..(T * F) |-> clips[((n - 1) \div F) + 1].frames[((n - 1) % F) + 1]]]

\* core.std.Interleave(tiles, modify_duration=False): output frame n is frame
\* n div T of clip n mod T.
Interleave(clips) ==
    IF FirstErr(clips) # "" THEN Raise(FirstErr(clips))
    ELSE LET T == Len(clips)
             F == Len(clips[1].frames)
         IN  [clips[1] EXCEPT !.frames =
                [n \in 1..(T * F) |-> clips[((n - 1) % T) + 1].frames[((n - 1) \div T) + 1]]]

\* core.std.SelectEvery(clip, cycle=cycle, offsets=offset)
SelectEvery(clip, cycle, offset) ==
    IF clip.err # "" THEN clip
    ELSE LET N   == Len(clip.frames)
             cnt == IF N > offset THEN ((N - offset - 1) \div cycle) + 1 ELSE 0
         IN  [clip EXCEPT !.frames = [n \in 1..cnt |-> clip.frames[(n - 1) * cycle + offset + 1]]]

\* an overlap check that lets negative overlaps through
BadOverlap_Negative(overlap, size) == overlap >= size

\* the overlap checks of tile (lines 586-589) and of window (line 1155)
BadOverlap(overlap, size) == overlap < 0 \/ overlap >= size

\* a grid bound that never rejects
TooManyTiles_Never(num_tiles) == FALSE

\* the bound on the tiles per frame, lines 615 and 630 (and 797 in untile)
TooManyTiles(num_tiles) == num_tiles > max_tiles

\* a count with one tile more than needed
TilesCeil_Extra(orig, size, stride) ==
    2 + (IF orig <= size THEN 0 ELSE (orig - size + stride - 1) \div stride)

\* the tile counts of the padding path, lines 627-628 (and 728-729, 789-790)
TilesCeil(orig, size, stride) ==
    1 + (IF orig <= size THEN 0 ELSE (orig - size + stride - 1) \div stride)

\* the tile counts of the discard path, lines 612-613 (and 784-785)
TilesFloor(orig, size, stride) == 1 + (orig - size) \div stride

\* the Tile Record, lines 652-662
TileCfg(width, height, overlap_width, overlap_height, orig_width, orig_height, discard) ==
    [tile_w |-> width, tile_h |-> height, overlap_w |-> overlap_width,
     overlap_h |-> overlap_height, orig_w |-> orig_width, orig_h |-> orig_height,
     discard |-> discard]

\* isinstance checks of line 623
TilePaddingOk(padding) ==
    \/ IsStr(padding, fb_modes \cup cv_modes \cup {"wrap", "black"})
    \/ padding.kind \in {"real", "list"}

\* every tile cut at the top left corner
TileList_SameCorner(clip, width, height, stride_x, stride_y, tiles_x, tiles_y) ==
    [k \in 1..(tiles_x * tiles_y) |-> CropAbs(clip, width, height, 0, 0)]

\* the tiles cut in column-major order
TileList_ColumnMajor(clip, width, height, stride_x, stride_y, tiles_x, tiles_y) ==
    [k \in 1..(tiles_x * tiles_y) |->
        LET i == (k - 1) \div tiles_y
            j == (k - 1) % tiles_y
        IN  CropAbs(clip, width, height, i * stride_x, j * stride_y)]

\* the tiles cut in row-major order, lines 640-648
TileList(clip, width, height, stride_x, stride_y, tiles_x, tiles_y) ==
    [k \in 1..(tiles_x * tiles_y) |->
        LET j == (k - 1) \div tiles_x
            i == (k - 1) % tiles_x
        IN  CropAbs(clip, width, height, i * stride_x, j * stride_y)]

\* tile(clip, width, height, overlap=[overlap_width, overlap_height], padding)
tile(clip, width, height, overlap_width, overlap_height, padding) ==
    LET clip_format == clip.fmt
        orig_width  == clip.width
        orig_height == clip.height
        stride_x    == width  - overlap_width
        stride_y    == height - overlap_height
        sub_w       == SubW(clip_format)
        sub_h       == SubH(clip_format)
        discard     == IsStr(padding, {"discard"})
        tiles_x     == IF discard THEN TilesFloor(orig_width, width, stride_x)
                       ELSE TilesCeil(orig_width, width, stride_x)
        tiles_y     == IF discard THEN TilesFloor(orig_height, height, stride_y)
                       ELSE TilesCeil(orig_height, height, stride_y)
        num_tiles   == tiles_x * tiles_y
        used_width  == width  + (tiles_x - 1) * stride_x
        used_height == height + (tiles_y - 1) * stride_y
        crop_r      == orig_width  - used_width
        crop_b      == orig_height - used_height
        pad_r       == used_width  - orig_width
        pad_b       == used_height - orig_height
        fitted      == IF discard
                       THEN (IF crop_r = 0 /\ crop_b = 0 THEN clip
                             ELSE Crop(clip, 0, crop_r, 0, crop_b))
                       ELSE (IF pad_r # 0 \/ pad_b # 0
                             THEN CopyFrameProps(pad(clip, 0, pad_r, 0, pad_b, padding), clip)
                             ELSE clip)
        tiles       == TileList(fitted, width, height, stride_x, stride_y, tiles_x, tiles_y)
    IN  IF clip.err # "" THEN clip
        ELSE IF width <= 1 \/ height <= 1 THEN Raise("ValueError")
        ELSE IF BadOverlap(overlap_width, width) \/ BadOverlap(overlap_height, height)
             THEN Raise("ValueError")
        ELSE IF \/ BadModulus(width, sub_w) \/ BadModulus(height, sub_h)
                \/ BadModulus(overlap_width, sub_w) \/ BadModulus(overlap_height, sub_h)
             THEN Raise("ValueError")
        ELSE IF discard /\ (orig_width < width \/ orig_height < height) THEN Raise("ValueError")
        ELSE IF ~discard /\ ~TilePaddingOk(padding) THEN Raise("TypeError")
        ELSE IF TooManyTiles(num_tiles) THEN Raise("ValueError")
        ELSE IF fitted.err # "" THEN fitted
        ELSE SetFrameProp(Interleave(tiles), "tile",
                          TileCfg(width, height, overlap_width, overlap_height,
                                  orig_width, orig_height, discard))

\* _split_overlap with the far half set to the near half
_split_overlap_Halves(overlap, unit) ==
    IF overlap <= 0 THEN <<0, 0>>
    ELSE LET ov == IF unit > 1 THEN overlap - (overlap % unit) ELSE overlap
             h0 == ov \div 2
             h  == IF unit > 1 THEN h0 - (h0 % unit) ELSE h0
         IN  <<h, h>>

\* _split_overlap without the alignment to the unit
_split_overlap_Unaligned(overlap, unit) ==
    IF overlap <= 0 THEN <<0, 0>>
    ELSE <<overlap \div 2, overlap - (overlap \div 2)>>

\* untile._crop_tiles._split_overlap(overlap, unit) = <<a, b>>
_split_overlap(overlap, unit) ==
    IF overlap <= 0 THEN <<0, 0>>
    ELSE LET ov == IF unit > 1 THEN overlap - (overlap % unit) ELSE overlap
             h0 == ov \div 2
             h  == IF unit > 1 THEN h0 - (h0 % unit) ELSE h0
             a  == h
             b  == ov - a
         IN  <<a, b>>

\* untile._crop_tiles(clip, col, row) under the geometry g
_crop_tiles(clip, col, row, g) ==
    LET half_w == _split_overlap(g.overlap_width,  g.sub_w)
        half_h == _split_overlap(g.overlap_height, g.sub_h)
        crop_left   == IF col > 0 THEN half_w[1] ELSE 0
        crop_right  == IF col < g.tiles_x - 1 THEN half_w[2] ELSE 0
        crop_top    == IF row > 0 THEN half_h[1] ELSE 0
        crop_bottom == IF row < g.tiles_y - 1 THEN half_h[2] ELSE 0
    IN  IF crop_left # 0 \/ crop_right # 0 \/ crop_top # 0 \/ crop_bottom # 0
        THEN Crop(clip, crop_left, crop_right, crop_top, crop_bottom)
        ELSE clip

\* untile._mask_horizontal(h): the black-to-white gradient resampled by
\* core.resize.Bilinear to overlap_width columns; column x holds the level
\* (2x + 1) / (2 overlap_width) of the peak.
_mask_horizontal(clip, h, overlap_width) ==
    [clip EXCEPT !.width = overlap_width, !.height = h,
        !.frames = [n \in 1..Len(clip.frames) |->
            [img |-> [y \in 1..h |-> [x \in 1..overlap_width |->
                         MaskPx(2 * x - 1, 2 * overlap_width)]],
             props |-> NoProps]]]

\* untile._mask_vertical(w)
_mask_vertical(clip, w, overlap_height) ==
    [clip EXCEPT !.width = w, !.height = overlap_height,
        !.frames = [n \in 1..Len(clip.frames) |->
            [img |-> [y \in 1..overlap_height |-> [x \in 1..w |->
                         MaskPx(2 * y - 1, 2 * overlap_height)]],
             props |-> NoProps]]]

\* untile._fade_horizontal(left, right)
_fade_horizontal(left, right, overlap_width) ==
    IF overlap_width <= 0 THEN StackHorizontal(<<left, right>>)
    ELSE IF left.err # "" THEN left
    ELSE IF right.err # "" THEN right
    ELSE LET keep_left     == Crop(left,  0, overlap_width, 0, 0)
             keep_right    == Crop(right, overlap_width, 0, 0, 0)
             overlap_left  == Crop(left,  left.width - overlap_width, 0, 0, 0)
             overlap_right == Crop(right, 0, right.width - overlap_width, 0, 0)
             mask          == _mask_horizontal(left, left.height, overlap_width)
             overlap       == _maskedmerge(overlap_left, overlap_right, mask)
         IN  StackHorizontal(<<keep_left, overlap, keep_right>>)

\* untile._fade_vertical(top, bottom)
_fade_vertical(top, bottom, overlap_height) ==
    IF overlap_height <= 0 THEN StackVertical(<<top, bottom>>)
    ELSE IF top.err # "" THEN top
    ELSE IF bottom.err # "" THEN bottom
    ELSE LET keep_top       == Crop(top,    0, 0, 0, overlap_height)
             keep_bottom    == Crop(bottom, 0, 0, overlap_height, 0)
             overlap_top    == Crop(top,    0, 0, top.height - overlap_height, 0)
             overlap_bottom == Crop(bottom, 0, 0, 0, bottom.height - overlap_height)
             mask           == _mask_vertical(top, top.width, overlap_height)
             overlap        == _maskedmerge(overlap_top, overlap_bottom, mask)
         IN  StackVertical(<<keep_top, overlap, keep_bottom>>)

\* the geometry of manual mode, lines 699-733; overlap is the pair given
UntileManual(clip, full_width, full_height, overlap) ==
    LET tile_width     == clip.width
        tile_height    == clip.height
        overlap_width  == overlap[1]
        overlap_height == overlap[2]
        orig_width     == full_width
        orig_height    == full_height
        sub_w          == SubW(clip.fmt)
        sub_h          == SubH(clip.fmt)
        stride_x       == tile_width  - overlap_width
        stride_y       == tile_height - overlap_height
        tiles_x        == TilesCeil(orig_width,  tile_width,  stride_x)
        tiles_y        == TilesCeil(orig_height, tile_height, stride_y)
        assembled_width  == tile_width  + (tiles_x - 1) * stride_x
        assembled_height == tile_height + (tiles_y - 1) * stride_y
    IN  IF overlap_width < 0 \/ overlap_height < 0 THEN [err |-> "ValueError"]
        ELSE IF overlap_width >= tile_width \/ overlap_height >= tile_height
             THEN [err |-> "ValueError"]
        ELSE IF \/ BadModulus(overlap_width, sub_w) \/ BadModulus(overlap_height, sub_h)
                \/ BadModulus(orig_width, sub_w) \/ BadModulus(orig_height, sub_h)
             THEN [err |-> "ValueError"]
        ELSE [err |-> "", overlap_width |-> overlap_width, overlap_height |-> overlap_height,
              tiles_x |-> tiles_x, tiles_y |-> tiles_y,
              pad_r |-> Max(0, assembled_width  - orig_width),
              pad_b |-> Max(0, assembled_height - orig_height),
              sub_w |-> sub_w, sub_h |-> sub_h]

\* int(round(value * scale)) followed by the alignment of lines 762-770
ScaleAlign(value, to_extent, from_extent, sub) ==
    LET v == PyRound(value * to_extent, from_extent)
    IN  IF sub > 1 THEN v - (v % sub) ELSE v

\* an overlap taken as it comes
ClampOverlap_None(overlap, tile_extent) == overlap

\* max(0, min(overlap, tile_extent - 1)), lines 773-774
ClampOverlap(overlap, tile_extent) == Max(0, Min(overlap, tile_extent - 1))

\* the geometry of auto mode, lines 741-794, from the Tile Record cfg
UntileAuto(clip, cfg) ==
    LET tile_width     == clip.width
        tile_height    == clip.height
        sub_w          == SubW(clip.fmt)
        sub_h          == SubH(clip.fmt)
        orig_width     == ScaleAlign(cfg.orig_w, tile_width,  cfg.tile_w, sub_w)
        orig_height    == ScaleAlign(cfg.orig_h, tile_height, cfg.tile_h, sub_h)
        overlap_width  == ClampOverlap(ScaleAlign(cfg.overlap_w, tile_width,  cfg.tile_w, sub_w),
                                       tile_width)
        overlap_height == ClampOverlap(ScaleAlign(cfg.overlap_h, tile_height, cfg.tile_h, sub_h),
                                       tile_height)
        stride_x       == tile_width  - overlap_width
        stride_y       == tile_height - overlap_height
        tiles_x        == IF cfg.discard THEN TilesFloor(orig_width, tile_width, stride_x)
                          ELSE TilesCeil(orig_width, tile_width, stride_x)
        tiles_y        == IF cfg.discard THEN TilesFloor(orig_height, tile_height, stride_y)
                          ELSE TilesCeil(orig_height, tile_height, stride_y)
        assembled_width  == tile_width  + (tiles_x - 1) * stride_x
        assembled_height == tile_height + (tiles_y - 1) * stride_y
    IN  IF cfg.discard /\ (orig_width < tile_width \/ orig_height < tile_height)
        THEN [err |-> "ValueError"]
        ELSE [err |-> "", overlap_width |-> overlap_width, overlap_height |-> overlap_height,
              tiles_x |-> tiles_x, tiles_y |-> tiles_y,
              pad_r |-> IF cfg.discard THEN 0 ELSE Max(0, assembled_width  - orig_width),
              pad_b |-> IF cfg.discard THEN 0 ELSE Max(0, assembled_height - orig_height),
              sub_w |-> sub_w, sub_h |-> sub_h]

\* the de-interleaved tiles, lines 802-805
Parts(clip, num_tiles) ==
    IF num_tiles = 1 THEN <<clip>>
    ELSE [i \in 1..num_tiles |-> SelectEvery(clip, num_tiles, i - 1)]

RECURSIVE FadeRow(_, _, _, _, _)
FadeRow(row, parts, j, i, g) ==
    IF i > g.tiles_x - 1 THEN row
    ELSE FadeRow(_fade_horizontal(row, parts[j * g.tiles_x + i + 1], g.overlap_width),
                 parts, j, i + 1, g)

RECURSIVE FadeRows(_, _, _, _)
FadeRows(full, rows, j, g) ==
    IF j > g.tiles_y - 1 THEN full
    ELSE FadeRows(_fade_vertical(full, rows[j + 1], g.overlap_height), rows, j + 1, g)

\* the reassembly of lines 879-898
Assemble(parts, fade, g) ==
    IF ~fade
    THEN LET rows == [jj \in 1..g.tiles_y |->
                        LET j == jj - 1
                            row_tiles == [ii \in 1..g.tiles_x |->
                                _crop_tiles(parts[j * g.tiles_x + ii], ii - 1, j, g)]
                        IN  IF g.tiles_x = 1 THEN row_tiles[1] ELSE StackHorizontal(row_tiles)]
         IN  IF g.tiles_y = 1 THEN rows[1] ELSE StackVertical(rows)
    ELSE LET rows == [jj \in 1..g.tiles_y |->
                        FadeRow(parts[(jj - 1) * g.tiles_x + 1], parts, jj - 1, 1, g)]
         IN  FadeRows(rows[1], rows, 1, g)

\* a frame count check that never rejects
NotDivisible_Never(num_frames, num_tiles) == FALSE

\* num_frames and num_frames % num_tiles != 0, line 799
NotDivisible(num_frames, num_tiles) == num_frames # 0 /\ num_frames % num_tiles # 0

\* untile(clip, fade, full_width, full_height, overlap): each geometry
\* argument None or a value, overlap a pair
untile(clip, fade, full_width, full_height, overlap) ==
    LET num_frames == Len(clip.frames)
        given  == {IsNone(overlap), IsNone(full_width), IsNone(full_height)}
        manual == FALSE \in given
        f0     == clip.frames[1]
        g      == IF manual THEN UntileManual(clip, Val(full_width), Val(full_height), Val(overlap))
                  ELSE UntileAuto(clip, Val(GetRecord(f0, "tile")))
        num_tiles == g.tiles_x * g.tiles_y
        full   == Assemble(Parts(clip, num_tiles), fade, g)
        out    == IF g.pad_r # 0 \/ g.pad_b # 0 THEN Crop(full, 0, g.pad_r, 0, g.pad_b) ELSE full
    IN  IF clip.err # "" THEN clip
        ELSE IF manual /\ TRUE \in given THEN Raise("ValueError")
        ELSE IF ~manual /\ IsNone(GetRecord(f0, "tile")) THEN Raise("KeyError")
        ELSE IF g.err # "" THEN Raise(g.err)
        ELSE IF TooManyTiles(num_tiles) THEN Raise("ValueError")
        ELSE IF NotDivisible(num_frames, num_tiles) THEN Raise("ValueError")
        ELSE RemoveFrameProps(out, "tile")

-----------------------------------------------------------------------------
(* Clips along time: slices, Splice, Loop, Reverse.                        *)

NumFrames(clip) == Len(clip.frames)

\* a Python slice bound i on a clip of n frames
NormIdx(i, n) == IF i < 0 THEN Max(0, n + i) ELSE Min(i, n)

\* clip[a:b]; VapourSynth has no empty clip, an empty slice raises
ClipSlice(clip, a, b) ==
    IF clip.err # "" THEN clip
    ELSE LET lo == NormIdx(a, NumFrames(clip))
             hi == NormIdx(b, NumFrames(clip))
         IN  IF hi <= lo THEN Raise("vs.Error")
             ELSE [clip EXCEPT !.frames = SubSeq(clip.frames, lo + 1, hi)]

\* clip[a:]
ClipFrom(clip, a) == ClipSlice(clip, a, IF clip.err = "" THEN NumFrames(clip) ELSE 0)

\* clip[:b]
ClipTo(clip, b) == ClipSlice(clip, 0, b)

\* core.std.Trim(clip, first=first, last=last), both inclusive
Trim(clip, first, last) ==
    IF clip.err # "" THEN clip
    ELSE IF first < 0 \/ last < first \/ last >= NumFrames(clip) THEN Raise("vs.Error")
    ELSE [clip EXCEPT !.frames = SubSeq(clip.frames, first + 1, last + 1)]

\* core.std.Splice(clips): the clips one after the other
Splice(clips) ==
    IF Len(clips) = 0 THEN Raise("vs.Error")
    ELSE IF FirstErr(clips) # "" THEN Raise(FirstErr(clips))
    ELSE IF \E i \in 1..Len(clips) :
               \/ clips[i].width # clips[1].width \/ clips[i].height # clips[1].height
               \/ clips[i].fmt # clips[1].fmt
         THEN Raise("vs.Error")
    ELSE [clips[1] EXCEPT !.frames = Concat([i \in 1..Len(clips) |-> clips[i].frames])]

\* core.std.Loop(clip, times=n) and clip * n, n >= 1
Loop(clip, n) ==
    IF clip.err # "" THEN clip
    ELSE [clip EXCEPT !.frames = Concat([i \in 1..n |-> clip.frames])]

\* a reversal that keeps the order
Reverse_Same(clip) == clip

\* core.std.Reverse(clip)
Reverse(clip) ==
    IF clip.err # "" THEN clip
    ELSE [clip EXCEPT !.frames = [i \in 1..NumFrames(clip) |-> clip.frames[NumFrames(clip) + 1 - i]]]

\* core.std.BlankClip(clip=clip, length=n, color=color, keep=True), with the
\* colour properties of a frame of clip copied on (lines 967-969, 1000-1002)
BlankFrames(clip, n) ==
    IF clip.err # "" THEN clip
    ELSE [clip EXCEPT !.frames =
            [i \in 1..n |-> [img |-> [y \in 1..clip.height |-> [x \in 1..clip.width |-> Synth]],
                             props |-> NoProps]]]

-----------------------------------------------------------------------------
(* tpad.                                                                   *)

\* ceil(n / m) as lines 948, 955, 979, 987 compute it
Repeats(n, m) == (n + m - 1) \div Max(1, m)

\* tpad._end_pad(clip, n)
_end_pad(clip, n, pad_mode) ==
    IF IsStr(pad_mode, {"mirror"})
    THEN IF NumFrames(clip) = 1 THEN Loop(clip, n)
         ELSE LET reverse  == Reverse(ClipTo(clip, -1))
                  forward  == ClipFrom(clip, 1)
                  pingpong == Splice(<<reverse, forward>>)
              IN  ClipTo(Loop(pingpong, Repeats(n, NumFrames(pingpong))), n)
    ELSE IF IsStr(pad_mode, {"loop"})
    THEN IF NumFrames(clip) = 1 THEN Loop(clip, n)
         ELSE ClipTo(Loop(clip, Repeats(n, NumFrames(clip))), n)
    ELSE IF IsStr(pad_mode, {"repeat"})
    THEN Loop(Trim(clip, NumFrames(clip) - 1, NumFrames(clip) - 1), n)
    ELSE LET color == _normalize_color(pad_mode, clip.fmt)
         IN  IF color.r \in {"raise", "false"} THEN Raise("ValueError")
             ELSE BlankFrames(clip, n)

\* tpad._start_pad(clip, n)
_start_pad(clip, n, pad_mode) ==
    IF IsStr(pad_mode, {"mirror"})
    THEN IF NumFrames(clip) = 1 THEN Loop(clip, n)
         ELSE LET forward  == ClipFrom(clip, 1)
                  reverse  == Reverse(ClipTo(clip, -1))
                  pingpong == Splice(<<forward, reverse>>)
              IN  Reverse(ClipTo(Loop(pingpong, Repeats(n, NumFrames(pingpong))), n))
    ELSE IF IsStr(pad_mode, {"loop"})
    THEN IF NumFrames(clip) = 1 THEN Loop(clip, n)
         ELSE LET looped == Loop(clip, Repeats(n, NumFrames(clip)))
              IN  Trim(looped, NumFrames(looped) - n, NumFrames(looped) - 1)
    ELSE IF IsStr(pad_mode, {"repeat"})
    THEN Loop(Trim(clip, 0, 0), n)
    ELSE LET color == _normalize_color(pad_mode, clip.fmt)
         IN  IF color.r \in {"raise", "false"} THEN Raise("ValueError")
             ELSE BlankFrames(clip, n)

\* the record tpad leaves for trim, lines 1012-1014
TpadCfg(add_start, add_end) == [start_pad |-> add_start, end_pad |-> add_end]

\* tpad(clip, start, end, length, mode); length is None or a value
tpad(clip, start, end, length, mode) ==
    LET add_start == IF IsNone(length) THEN start ELSE 0
        add_end   == IF IsNone(length) THEN end ELSE Max(0, Val(length) - NumFrames(clip))
        out1      == IF add_start > 0 THEN Splice(<<_start_pad(clip, add_start, mode), clip>>)
                     ELSE clip
        out2      == IF add_end > 0 THEN Splice(<<out1, _end_pad(clip, add_end, mode)>>)
                     ELSE out1
    IN  IF clip.err # "" THEN clip
        ELSE IF ~IsNone(length) /\ (start # 0 \/ end # 0) THEN Raise("ValueError")
        ELSE IF ~IsNone(length) /\ Val(length) < 1 THEN Raise("ValueError")
        ELSE IF start < 0 \/ end < 0 THEN Raise("ValueError")
        ELSE SetFrameProp(out2, "tpad", TpadCfg(add_start, add_end))

\* trim(clip, start, end, length), each argument None or a value
trim(clip, start, end, length) ==
    LET num_frames == NumFrames(clip)
        manual == ~(IsNone(start) /\ IsNone(end) /\ IsNone(length))
        f0     == clip.frames[1]
        cfg    == Val(GetRecord(f0, "tpad"))
        start_pad == IF ~manual THEN cfg.start_pad
                     ELSE IF ~IsNone(length) THEN 0
                     ELSE OrZero(start)
        end_pad   == IF ~manual THEN cfg.end_pad
                     ELSE IF ~IsNone(length) THEN num_frames - Val(length)
                     ELSE OrZero(end)
        out    == IF end_pad # 0 THEN ClipSlice(clip, start_pad, num_frames - end_pad)
                  ELSE ClipFrom(clip, start_pad)
    IN  IF clip.err # "" THEN clip
        ELSE IF manual /\ ~IsNone(length) /\ (OrZero(start) # 0 \/ OrZero(end) # 0)
             THEN Raise("ValueError")
        ELSE IF manual /\ ~IsNone(length) /\ (Val(length) < 1 \/ Val(length) > num_frames)
             THEN Raise("ValueError")
        ELSE IF ~manual /\ IsNone(GetRecord(f0, "tpad")) THEN Raise("KeyError")
        ELSE IF start_pad = 0 /\ end_pad = 0 THEN RemoveFrameProps(clip, "tpad")
        ELSE IF start_pad < 0 \/ end_pad < 0 THEN Raise("ValueError")
        ELSE IF start_pad + end_pad >= num_frames THEN Raise("ValueError")
        ELSE RemoveFrameProps(out, "tpad")

-----------------------------------------------------------------------------
(* crossfade.                                                              *)

\* core.query_video_format(vs.GRAY, sample_type, bits_per_sample, 0, 0)
MaskFormat(clip_format) ==
    [name   |-> IF clip_format.st = "FLOAT" THEN "GRAYS"
                ELSE IF clip_format.bits = 8 THEN "GRAY8" ELSE "GRAY16",
     family |-> "GRAY", st |-> clip_format.st, bits |-> clip_format.bits,
     ssw |-> 0, ssh |-> 0, planes |-> 1]

\* every mask frame at the middle level
FadeLevel_Flat(clip_format, n, length) ==
    IF clip_format.st = "INTEGER"
    THEN MaskPx(2^(clip_format.bits - 1), 2^clip_format.bits - 1)
    ELSE MaskPx(1, 2)

\* the value of mask frame n, 0 <= n < length: an integer level of the peak
\* (line 1112) or the weight (n + 1) / (length + 1) (line 1116)
FadeLevel(clip_format, n, length) ==
    IF clip_format.st = "INTEGER"
    THEN LET peak == 2^clip_format.bits - 1
         IN  MaskPx(PyRound(peak * (n + 1), length + 1), peak)
    ELSE MaskPx(n + 1, length + 1)

\* the fade mask: length one-frame clips of a_tail's extent, spliced
FadeMask(a_tail, clip_format, length) ==
    IF a_tail.err # "" THEN a_tail
    ELSE [err |-> "", width |-> a_tail.width, height |-> a_tail.height,
          fmt |-> MaskFormat(clip_format),
          frames |-> [i \in 1..length |->
                        [img |-> [y \in 1..a_tail.height |-> [x \in 1..a_tail.width |->
                                    FadeLevel(clip_format, i - 1, length)]],
                         props |-> NoProps]]]

\* the parts with the blended frames put first
Parts_BlendFirst(clipa, clipb, fade, length) ==
    <<fade>>
    \o (IF NumFrames(clipa) > length THEN <<ClipTo(clipa, -length)>> ELSE <<>>)
    \o (IF NumFrames(clipb) > length THEN <<ClipFrom(clipb, length)>> ELSE <<>>)

\* the parts crossfade splices, lines 1124-1129
FadeParts(clipa, clipb, fade, length) ==
    (IF NumFrames(clipa) > length THEN <<ClipTo(clipa, -length)>> ELSE <<>>)
    \o <<fade>>
    \o (IF NumFrames(clipb) > length THEN <<ClipFrom(clipb, length)>> ELSE <<>>)

crossfade(clipa, clipb, length) ==
    IF FirstErr(<<clipa, clipb>>) # "" THEN Raise(FirstErr(<<clipa, clipb>>))
    ELSE IF clipa.fmt # clipb.fmt \/ clipa.width # clipb.width \/ clipa.height # clipb.height
    THEN Raise("ValueError")
    ELSE IF length <= 0 THEN Splice(<<clipa, clipb>>)
    ELSE LET a_tail == ClipFrom(clipa, -length)
             b_head == ClipTo(clipb, length)
             mask   == FadeMask(a_tail, clipa.fmt, length)
             fade   == _maskedmerge(a_tail, b_head, mask)
         IN  Splice(FadeParts(clipa, clipb, fade, length))

-----------------------------------------------------------------------------
(* window and unwindow.                                                    *)

\* the branch of lines 1170-1187 a short window takes
WindowPads(padding) ==
    \/ IsStr(padding, {"mirror", "loop", "repeat", "black"})
    \/ padding.kind \in {"real", "list"}

WindowLeaves(padding) == padding.kind = "none" \/ IsStr(padding, {"none"})

\* the window the loop of lines 1161-1193 makes at start_frame, padded
PaddedWindow(clip, start_frame, length, padding) ==
    LET end_frame      == Min(NumFrames(clip) - 1, start_frame + length - 1)
        window_clip    == Trim(clip, start_frame, end_frame)
        frames_present == end_frame - start_frame + 1
        frames_missing == length - frames_present
    IN  IF frames_missing > 0 /\ ~WindowLeaves(padding)
        THEN CopyFrameProps(tpad(window_clip, 0, 0, Some(length), padding), window_clip)
        ELSE window_clip

\* the loop of lines 1161-1193: one pass for every start_frame k * stride
\* below num_frames; a pass with frames missing ends the loop under "discard"
\* and raises under a padding that is none of the accepted ones.  The result
\* is the windows appended, or the exception raised.
WindowList(clip, length, overlap, padding) ==
    LET num_frames == NumFrames(clip)
        stride     == length - overlap
        passes     == (num_frames + stride - 1) \div stride
        short      == {k \in 0..(passes - 1) : k * stride + length > num_frames}
        full       == passes - Cardinality(short)
    IN  IF short # {} /\ IsStr(padding, {"discard"})
        THEN [err |-> "", list |-> [k \in 1..full |->
                                      PaddedWindow(clip, (k - 1) * stride, length, padding)]]
        ELSE IF short # {} /\ ~WindowLeaves(padding) /\ ~WindowPads(padding)
        THEN [err |-> "ValueError", list |-> <<>>]
        ELSE [err |-> "", list |-> [k \in 1..passes |->
                                      PaddedWindow(clip, (k - 1) * stride, length, padding)]]

\* lines 1198-1205
pad_tag(padding) ==
    IF padding.kind = "list" THEN "color"
    ELSE IF padding.kind = "none" THEN "none"
    ELSE IF padding.kind = "str" THEN padding.s
    ELSE "none"

\* the Window Record, lines 1208-1213
WindowCfg(num_frames, length, overlap, padding) ==
    [orig_length |-> num_frames, window_length |-> length, overlap |-> overlap,
     padding |-> pad_tag(padding)]

window(clip, length, overlap, padding) ==
    IF clip.err # "" THEN clip
    ELSE IF length < 1 THEN Raise("ValueError")
    ELSE IF BadOverlap(overlap, length) THEN Raise("ValueError")
    ELSE LET w == WindowList(clip, length, overlap, padding)
         IN  IF w.err # "" THEN Raise(w.err)
             ELSE SetFrameProp(Splice(w.list), "win",
                               WindowCfg(NumFrames(clip), length, overlap, padding))

\* lines 1266-1272: the windowed clip cut every window_length frames
SplitWindows(clip, window_length) ==
    LET num_frames  == NumFrames(clip)
        num_windows == (num_frames + window_length - 1) \div window_length
    IN  [k \in 1..num_windows |->
            ClipSlice(clip, (k - 1) * window_length, Min(k * window_length, num_frames))]

\* the window with its overlap left in
DropOverlap_Keep(next_window, overlap) == next_window

\* the window after the overlap is dropped from its head, lines 1284-1285
DropOverlap(next_window, overlap) ==
    ClipFrom(next_window, Min(overlap, NumFrames(next_window)))

\* lines 1275-1285 from window k on
RECURSIVE Reassemble(_, _, _, _, _)
Reassemble(reassembled, window_list, k, fade, overlap) ==
    IF k > Len(window_list) THEN reassembled
    ELSE IF FirstErr(<<reassembled, window_list[k]>>) # ""
    THEN Raise(FirstErr(<<reassembled, window_list[k]>>))
    ELSE LET next_window      == window_list[k]
             crossfade_length == Min(overlap, Min(NumFrames(reassembled), NumFrames(next_window)))
             joined ==
                 IF fade /\ overlap > 0
                 THEN IF crossfade_length > 0
                      THEN crossfade(reassembled, next_window, crossfade_length)
                      ELSE Splice(<<reassembled, next_window>>)
                 ELSE Splice(<<reassembled, DropOverlap(next_window, overlap)>>)
         IN  Reassemble(joined, window_list, k + 1, fade, overlap)

unwindow(clip, fade, full_length, window_length, overlap) ==
    LET given  == {a \in {full_length, window_length, overlap} : ~IsNone(a)}
        manual == given # {}
        f0     == clip.frames[1]
        cfg    == Val(GetRecord(f0, "win"))
        original_length == IF manual THEN Val(full_length) ELSE cfg.orig_length
        wl     == IF manual THEN Val(window_length) ELSE cfg.window_length
        ov     == IF manual THEN Val(overlap) ELSE cfg.overlap
        window_list  == SplitWindows(clip, wl)
        reassembled  == Reassemble(window_list[1], window_list, 2, fade, ov)
        final_length == Min(original_length, NumFrames(reassembled))
    IN  IF clip.err # "" THEN clip
        ELSE IF manual /\ (IsNone(full_length) \/ IsNone(window_length) \/ IsNone(overlap))
        THEN Raise("ValueError")
        ELSE IF manual /\ wl < 1 THEN Raise("ValueError")
        ELSE IF manual /\ (ov < 0 \/ ov >= wl) THEN Raise("ValueError")
        ELSE IF ~manual /\ IsNone(GetRecord(f0, "win")) THEN Raise("KeyError")
        ELSE IF reassembled.err # "" THEN reassembled
        ELSE RemoveFrameProps(ClipTo(reassembled, final_length), "win")

-----------------------------------------------------------------------------
(* The calls of one pipeline: src is the clip it starts from, cur the      *)
(* result of the calls made so far, hist the calls themselves.             *)

Last(h) == h[Len(h)]

Call(op, args) == [op |-> op, args |-> args]

Formats == {GRAY8, YUV420P8, YUV422P16, RGBS}

Sources(fmts, maxw, maxh, nframes) ==
    {SourceClip(fmt, w, h, nframes) :
        fmt \in fmts,
        w \in 1..maxw, h \in 1..maxh}

\* a clip's dimensions are multiples of its format's subsampling
ValidSources(fmts, maxw, maxh, nframes) ==
    {c \in Sources(fmts, maxw, maxh, nframes) :
        c.width % SubW(c.fmt) = 0 /\ c.height % SubH(c.fmt) = 0}

PadModes ==
    {StrMode("mirror"), StrMode("fillmargins"), StrMode("telea"), StrMode("wrap"),
     StrMode("black"), ListMode(<<128, 128, 128>>), StrMode("bogus")}

InitPad ==
    /\ src \in ValidSources(Formats, MaxW, MaxH, 1)
    /\ cur = src
    /\ hist = <<>>

PadStep ==
    /\ hist = <<>>
    /\ \E left, right, top, bottom \in 0..MaxPad, mode \in PadModes :
        /\ cur' = pad(cur, left, right, top, bottom, mode)
        /\ hist' = Append(hist, Call("pad", <<left, right, top, bottom, mode>>))
    /\ UNCHANGED src

\* the padded clip resized by the integer factor k on both axes
ResizeStep ==
    /\ Len(hist) = 1 /\ Last(hist).op = "pad" /\ cur.err = ""
    /\ \E k \in 1..MaxScale :
        /\ cur' = Resize(cur, k * cur.width, k * cur.height)
        /\ hist' = Append(hist, Call("resize", <<k>>))
    /\ UNCHANGED src

CropStep ==
    /\ Len(hist) < 3 /\ cur.err = ""
    /\ (hist # <<>> => Last(hist).op # "crop")
    /\ cur' = crop(cur, None, None, None, None)
    /\ hist' = Append(hist, Call("crop", <<>>))
    /\ UNCHANGED src

NextPad == PadStep \/ ResizeStep \/ CropStep

SpecPad == InitPad /\ [][NextPad]_vars

-----------------------------------------------------------------------------
(* The tiling pipeline: tile, an optional external resize of the tiles,    *)
(* untile.                                                                 *)

TilePaddings ==
    {StrMode("mirror"), StrMode("wrap"), StrMode("discard"), RealMode(16), NoneMode}

TileFormats == {GRAY8, YUV420P8, YUV422P16}

InitTile ==
    /\ src \in UNION {ValidSources(TileFormats, MaxTW, MaxTH, n) : n \in 1..MaxFrames}
    /\ cur = src
    /\ hist = <<>>

TileStep ==
    /\ hist = <<>>
    /\ \E width, height \in 1..MaxTile, overlap_width, overlap_height \in 0..(MaxTile - 1),
          padding \in TilePaddings :
        /\ cur' = tile(cur, width, height, overlap_width, overlap_height, padding)
        /\ hist' = Append(hist, Call("tile", <<width, height, overlap_width, overlap_height, padding>>))
    /\ UNCHANGED src

\* every tile resized to w x h by an external filter
ResizeTilesStep ==
    /\ Len(hist) = 1 /\ Last(hist).op = "tile" /\ cur.err = ""
    /\ \E w, h \in 1..MaxNewTile :
        /\ w % SubW(cur.fmt) = 0 /\ h % SubH(cur.fmt) = 0
        /\ <<w, h>> # <<cur.width, cur.height>>
        /\ cur' = Resize(cur, w, h)
        /\ hist' = Append(hist, Call("resize", <<w, h>>))
    /\ UNCHANGED src

UntileStep ==
    /\ hist # <<>> /\ Last(hist).op \in {"tile", "resize"} /\ cur.err = ""
    /\ \E fade \in BOOLEAN :
        /\ cur' = untile(cur, fade, None, None, None)
        /\ hist' = Append(hist, Call("untile", <<fade>>))
    /\ UNCHANGED src

NextTile == TileStep \/ UntileStep

SpecTile == InitTile /\ [][NextTile]_vars

\* the same pipeline on one-frame clips, with the tiles resized in between
InitRetile ==
    /\ src \in ValidSources(TileFormats, MaxTW, MaxTH, 1)
    /\ cur = src
    /\ hist = <<>>

NextRetile == TileStep \/ ResizeTilesStep \/ UntileStep

SpecRetile == InitRetile /\ [][NextRetile]_vars

-----------------------------------------------------------------------------
(* Temporal pipelines: window then unwindow on clips of 1 x 1 frames.      *)

MaxClipLen == 6
MaxWinLen == 4

WinPaddings ==
    {StrMode("mirror"), StrMode("repeat"), StrMode("loop"), StrMode("black"),
     StrMode("discard"), NoneMode, ListMode(<<128>>), RealMode(128), StrMode("bogus")}

InitWin ==
    /\ src \in {SourceClip(GRAY8, 1, 1, n) : n \in 1..MaxClipLen}
    /\ cur = src
    /\ hist = <<>>

WindowStep ==
    /\ hist = <<>>
    /\ \E length \in 0..MaxWinLen, overlap \in 0..(MaxWinLen - 1), padding \in WinPaddings :
        /\ cur' = window(cur, length, overlap, padding)
        /\ hist' = Append(hist, Call("window", <<length, overlap, padding>>))
    /\ UNCHANGED src

UnwindowStep ==
    /\ Len(hist) = 1 /\ Last(hist).op = "window" /\ cur.err = ""
    /\ \E fade \in BOOLEAN :
        /\ cur' = unwindow(cur, fade, None, None, None)
        /\ hist' = Append(hist, Call("unwindow", <<fade>>))
    /\ UNCHANGED src

NextWin == WindowStep \/ UnwindowStep

SpecWin == InitWin /\ [][NextWin]_vars

-----------------------------------------------------------------------------
(* crossfade of two clips; src holds both.                                 *)

\* a second clip, its frames told from the first clip's by negative numbers
OtherClip(fmt, w, h, n) ==
    [err |-> "", width |-> w, height |-> h, fmt |-> fmt,
     frames |-> [f \in 1..n |-> [img |-> SourceImg(-f, w, h), props |-> NoProps]]]

FadeFormats == {GRAY8, RGBS}

InitFade ==
    /\ src \in {[a |-> SourceClip(fmt, 1, 1, na), b |-> OtherClip(fmt, wb, 1, nb)] :
                  fmt \in FadeFormats, na \in 1..MaxClipLen, nb \in 1..MaxClipLen, wb \in 1..2}
    /\ cur = src.a
    /\ hist = <<>>

CrossfadeStep ==
    /\ hist = <<>>
    /\ \E length \in (-1)..(MaxClipLen + 1) :
        /\ cur' = crossfade(src.a, src.b, length)
        /\ hist' = Append(hist, Call("crossfade", <<length>>))
    /\ UNCHANGED src

NextFade == CrossfadeStep

SpecFade == InitFade /\ [][NextFade]_vars

-----------------------------------------------------------------------------
(* The fade mask of crossfade as a function of the format and the length.  *)

MaxFadeLen == 260

MaskFormats == {GRAY8, YUV422P16, RGBS}

InitMask ==
    /\ src \in {SourceClip(fmt, 2, 1, 1) : fmt \in MaskFormats}
    /\ cur = src
    /\ hist = <<>>

\* lines 1099-1120 of crossfade(src, src, length)
MaskStep ==
    /\ hist = <<>>
    /\ \E length \in 1..MaxFadeLen :
        /\ cur' = FadeMask(ClipFrom(src, -length), src.fmt, length)
        /\ hist' = Append(hist, Call("mask", <<length>>))
    /\ UNCHANGED src

NextMask == MaskStep

SpecMask == InitMask /\ [][NextMask]_vars

-----------------------------------------------------------------------------
(* _split_overlap as a function of the overlap and the alignment.          *)

MaxOverlap == 24
MaxUnit == 4

InitSplit ==
    /\ src \in {<<overlap, unit>> : overlap \in 0..MaxOverlap, unit \in 1..MaxUnit}
    /\ cur = src
    /\ hist = <<>>

SplitStep ==
    /\ hist = <<>>
    /\ cur' = _split_overlap(src[1], src[2])
    /\ hist' = Append(hist, Call("_split_overlap", src))
    /\ UNCHANGED src

NextSplit == SplitStep

SpecSplit == InitSplit /\ [][NextSplit]_vars

-----------------------------------------------------------------------------
(* The overlap and stride of auto untile as a function of the Tile Record  *)
(* and the extent of the tiles it is given, on one axis.  src is the tile  *)
(* size and overlap of the record, the current tile extent and the         *)
(* subsampling of the axis.                                                *)

MaxClampTile == 9
MaxClampExtent == 9

InitClamp ==
    /\ src \in {<<size, overlap, extent, sub>> :
                    size \in 2..MaxClampTile, overlap \in 0..(MaxClampTile - 1),
                    extent \in 1..MaxClampExtent, sub \in 1..2}
    /\ src[2] < src[1]
    /\ src[1] % src[4] = 0 /\ src[2] % src[4] = 0 /\ src[3] % src[4] = 0
    /\ cur = src
    /\ hist = <<>>

\* lines 757-778 on one axis
ClampStep ==
    /\ hist = <<>>
    /\ LET overlap == ClampOverlap(ScaleAlign(src[2], src[3], src[1], src[4]), src[3])
       IN  cur' = [overlap |-> overlap, stride |-> src[3] - overlap]
    /\ hist' = Append(hist, Call("untile", src))
    /\ UNCHANGED src

NextClamp == ClampStep

SpecClamp == InitClamp /\ [][NextClamp]_vars

-----------------------------------------------------------------------------
(* tile and untile on frames large enough for grids around max_tiles.      *)

MaxBigSide == 35
BigSpan == 4

BigSides == {n \in 1..MaxBigSide : n >= MaxBigSide - BigSpan}

InitBig ==
    /\ src \in {SourceClip(GRAY8, w, h, 1) : w \in BigSides, h \in BigSides}
    /\ cur = src
    /\ hist = <<>>

\* tiles of 2 x 2
TileBigStep ==
    /\ hist = <<>>
    /\ \E overlap_width, overlap_height \in 0..1,
          padding \in {StrMode("discard"), StrMode("mirror")} :
        /\ cur' = tile(cur, 2, 2, overlap_width, overlap_height, padding)
        /\ hist' = Append(hist, Call("tile", <<2, 2, overlap_width, overlap_height, padding>>))
    /\ UNCHANGED src

UntileBigStep ==
    /\ Len(hist) = 1 /\ cur.err = ""
    /\ cur' = untile(cur, FALSE, None, None, None)
    /\ hist' = Append(hist, Call("untile", <<FALSE>>))
    /\ UNCHANGED src

\* untile with the geometry given by the caller
UntileManualBigStep ==
    /\ Len(hist) = 1 /\ cur.err = ""
    /\ \E full_width, full_height \in BigSides, overlap \in 0..1 :
        /\ cur' = untile(cur, FALSE, Some(full_width), Some(full_height),
                         Some(<<overlap, overlap>>))
        /\ hist' = Append(hist, Call("untile_manual", <<full_width, full_height, overlap>>))
    /\ UNCHANGED src

NextBig == TileBigStep \/ UntileBigStep \/ UntileManualBigStep

SpecBig == InitBig /\ [][NextBig]_vars

-----------------------------------------------------------------------------
(* window on clips of more than max_tiles frames.                          *)

MaxLongLen == 1030
LongSpan == 10

LongLens == {n \in 1..MaxLongLen : n >= MaxLongLen - LongSpan}

InitLong ==
    /\ src \in {SourceClip(GRAY8, 1, 1, n) : n \in LongLens}
    /\ cur = src
    /\ hist = <<>>

WindowLongStep ==
    /\ hist = <<>>
    /\ \E length \in 1..3, overlap \in 0..2,
          padding \in {StrMode("repeat"), StrMode("discard"), NoneMode} :
        /\ cur' = window(cur, length, overlap, padding)
        /\ hist' = Append(hist, Call("window", <<length, overlap, padding>>))
    /\ UNCHANGED src

NextLong == WindowLongStep

SpecLong == InitLong /\ [][NextLong]_vars

-----------------------------------------------------------------------------
(* tile and window called with sizes and overlaps in and out of range.     *)

InitArgs ==
    /\ src \in ValidSources(TileFormats, MaxW, MaxH, MaxFrames)
    /\ cur = src
    /\ hist = <<>>

TileArgsStep ==
    /\ hist = <<>>
    /\ \E width, height \in 0..MaxTile, overlap_width, overlap_height \in (-1)..MaxTile,
          padding \in {StrMode("mirror"), StrMode("discard")} :
        /\ cur' = tile(cur, width, height, overlap_width, overlap_height, padding)
        /\ hist' = Append(hist, Call("tile", <<width, height, overlap_width, overlap_height, padding>>))
    /\ UNCHANGED src

WindowArgsStep ==
    /\ hist = <<>>
    /\ \E length \in 0..MaxWinLen, overlap \in (-1)..MaxWinLen,
          padding \in {StrMode("mirror"), StrMode("discard")} :
        /\ cur' = window(cur, length, overlap, padding)
        /\ hist' = Append(hist, Call("window", <<length, overlap, padding>>))
    /\ UNCHANGED src

NextArgs == TileArgsStep \/ WindowArgsStep

SpecArgs == InitArgs /\ [][NextArgs]_vars

-----------------------------------------------------------------------------
(* crop with margins given by the caller, or derived from the Pad Record   *)
(* of a clip that was resized to any extent after pad.                     *)

PadBlackStep ==
    /\ hist = <<>>
    /\ \E left, right, top, bottom \in 0..MaxPad :
        /\ cur' = pad(cur, left, right, top, bottom, StrMode("black"))
        /\ hist' = Append(hist, Call("pad", <<left, right, top, bottom, StrMode("black")>>))
    /\ UNCHANGED src

\* the padded clip resized to w x h by an external filter
ShrinkStep ==
    /\ Len(hist) = 1 /\ Last(hist).op = "pad" /\ cur.err = ""
    /\ \E w \in 1..MaxW, h \in 1..MaxH :
        /\ w % SubW(cur.fmt) = 0 /\ h % SubH(cur.fmt) = 0
        /\ cur' = Resize(cur, w, h)
        /\ hist' = Append(hist, Call("resize", <<w, h>>))
    /\ UNCHANGED src

Margins == {None} \cup {Some(v) : v \in (-1)..MaxPad}

ManualCropStep ==
    /\ hist = <<>>
    /\ \E left, right, top, bottom \in Margins :
        /\ ~(IsNone(left) /\ IsNone(right) /\ IsNone(top) /\ IsNone(bottom))
        /\ cur' = crop(cur, left, right, top, bottom)
        /\ hist' = Append(hist, Call("crop_manual", <<left, right, top, bottom>>))
    /\ UNCHANGED src

AutoCropStep ==
    /\ hist # <<>> /\ Last(hist).op \in {"pad", "resize"} /\ cur.err = ""
    /\ cur' = crop(cur, None, None, None, None)
    /\ hist' = Append(hist, Call("crop", <<>>))
    /\ UNCHANGED src

NextCrop == PadBlackStep \/ ShrinkStep \/ ManualCropStep \/ AutoCropStep

SpecCrop == InitPad /\ [][NextCrop]_vars

-----------------------------------------------------------------------------
(* Records across operations: calls that attach records (pad, tile,        *)
(* window, tpad) and calls that consume them (crop, untile, unwindow), in  *)
(* any order.  A consuming call's entry in hist holds whether it was given *)
(* manual geometry, and the clip it was given.                             *)

MaxRecDepth == 3
MaxRecSide == 4
MaxRecFrames == 2

RecFormats == {GRAY8, YUV420P8}

InitRec ==
    /\ src \in {SourceClip(fmt, s, s, n) :
                    fmt \in RecFormats, s \in {MaxRecSide - 2, MaxRecSide}, n \in 1..MaxRecFrames}
    /\ cur = src
    /\ hist = <<>>

RecReady == Len(hist) < MaxRecDepth /\ cur.err = ""

RecPadStep ==
    /\ RecReady
    /\ \E left, top \in {0, 2} :
        /\ cur' = pad(cur, left, 0, top, 0, StrMode("black"))
        /\ hist' = Append(hist, Call("pad", <<left, top>>))
    /\ UNCHANGED src

RecTileStep ==
    /\ RecReady
    /\ cur' = tile(cur, 2, 2, 0, 0, StrMode("mirror"))
    /\ hist' = Append(hist, Call("tile", <<>>))
    /\ UNCHANGED src

RecWindowStep ==
    /\ RecReady
    /\ \E overlap \in 0..1 :
        /\ cur' = window(cur, 2, overlap, StrMode("repeat"))
        /\ hist' = Append(hist, Call("window", <<overlap>>))
    /\ UNCHANGED src

RecTpadStep ==
    /\ RecReady
    /\ \E start \in 0..1 :
        /\ cur' = IF start = 1 THEN tpad(cur, 1, 0, None, StrMode("repeat"))
                  ELSE tpad(cur, 0, 1, None, StrMode("black"))
        /\ hist' = Append(hist, Call("tpad", <<start>>))
    /\ UNCHANGED src

RecCropStep ==
    /\ RecReady
    /\ \E left \in {None, Some(0), Some(2)} :
        /\ cur' = crop(cur, left, None, None, None)
        /\ hist' = Append(hist, Call("crop", <<~IsNone(left), cur>>))
    /\ UNCHANGED src

\* manual untile: the clip's frames taken as the tiles of a k x k grid
RecUntileStep ==
    /\ RecReady
    /\ \E fade \in BOOLEAN, k \in 0..2 :
        /\ cur' = IF k = 0 THEN untile(cur, fade, None, None, None)
                  ELSE untile(cur, fade, Some(k * cur.width), Some(k * cur.height),
                              Some(<<0, 0>>))
        /\ hist' = Append(hist, Call("untile", <<k # 0, cur, k>>))
    /\ UNCHANGED src

RecUnwindowStep ==
    /\ RecReady
    /\ \E fade \in BOOLEAN, manual \in BOOLEAN :
        /\ cur' = IF manual
                  THEN unwindow(cur, fade, Some(NumFrames(cur)), Some(2), Some(0))
                  ELSE unwindow(cur, fade, None, None, None)
        /\ hist' = Append(hist, Call("unwindow", <<manual, cur>>))
    /\ UNCHANGED src

NextRec ==
    \/ RecPadStep \/ RecTileStep \/ RecWindowStep \/ RecTpadStep
    \/ RecCropStep \/ RecUntileStep \/ RecUnwindowStep

SpecRec == InitRec /\ [][NextRec]_vars

-----------------------------------------------------------------------------
(* pad, crop, tile and untile on chroma-subsampled clips, with an external *)
(* resize in between.  Each entry of hist holds the clip the call was      *)
(* given, then its arguments.                                              *)

MaxAlignW == 14
MaxAlignPad == 3
MaxAlignTile == 8
MaxAlignFrames == 3

SubsampledFormats == {YUV420P8, YUV422P16}

AlignWidths == {w \in 1..MaxAlignW : w % 2 = 0 /\ (w <= 4 \/ w >= MaxAlignW - 1)}

InitAlign ==
    /\ src \in {SourceClip(fmt, w, 2, n) :
                    fmt \in SubsampledFormats, w \in AlignWidths, n \in {1, MaxAlignFrames}}
    /\ cur = src
    /\ hist = <<>>

AlignPadStep ==
    /\ hist = <<>> /\ cur.width <= 4
    /\ \E left, right, top \in 0..MaxAlignPad :
        /\ cur' = pad(cur, left, right, top, 0, StrMode("black"))
        /\ hist' = Append(hist, Call("pad", <<cur, left, right, top, 0>>))
    /\ UNCHANGED src

AlignTileStep ==
    /\ hist = <<>>
    /\ \E width \in 1..MaxAlignTile, height \in 1..2, overlap \in 0..(MaxAlignTile - 1),
          padding \in {StrMode("mirror"), StrMode("discard")} :
        /\ cur' = tile(cur, width, height, overlap, 0, padding)
        /\ hist' = Append(hist, Call("tile", <<cur, width, height, overlap, padding>>))
    /\ UNCHANGED src

\* an external resize of the padded clip or of the tiles
AlignResizeStep ==
    /\ Len(hist) = 1 /\ cur.err = ""
    /\ \E w \in {2, 4, 6}, h \in {2, 4} :
        /\ cur' = Resize(cur, w, h)
        /\ hist' = Append(hist, Call("resize", <<cur, w, h>>))
    /\ UNCHANGED src

AlignCropStep ==
    /\ hist # <<>> /\ hist[1].op = "pad" /\ Last(hist).op # "crop" /\ cur.err = ""
    /\ \E left, top \in {None} \cup {Some(v) : v \in 0..MaxAlignPad} :
        /\ cur' = crop(cur, left, None, top, None)
        /\ hist' = Append(hist, Call("crop", <<cur, left, None, top, None>>))
    /\ UNCHANGED src

AlignUntileStep ==
    /\ hist # <<>> /\ hist[1].op = "tile" /\ Last(hist).op # "untile" /\ cur.err = ""
    /\ \E fade \in BOOLEAN :
        \/ /\ cur' = untile(cur, fade, None, None, None)
           /\ hist' = Append(hist, Call("untile", <<cur, fade, None, None, None>>))
        \/ \E full_width \in 1..MaxAlignTile, overlap \in 0..MaxAlignPad :
             /\ cur' = untile(cur, fade, Some(full_width), Some(cur.height),
                              Some(<<overlap, 0>>))
             /\ hist' = Append(hist, Call("untile", <<cur, fade, Some(full_width),
                                                      Some(cur.height), Some(<<overlap, 0>>)>>))
    /\ UNCHANGED src

NextAlign ==
    AlignPadStep \/ AlignTileStep \/ AlignResizeStep \/ AlignCropStep \/ AlignUntileStep

SpecAlign == InitAlign /\ [][NextAlign]_vars

-----------------------------------------------------------------------------
(* Temporal padding: tpad, then trim.                                      *)

MaxTpadLen == 4
MaxTpadAdd == 7

\* the four named modes and the colours _normalize_color takes for the
\* format: one number, or one value in 0..255 for each plane
TpadModes(clip_format) ==
    {StrMode("mirror"), StrMode("loop"), StrMode("repeat"), StrMode("black"),
     RealMode(128), ListMode([i \in 1..clip_format.planes |-> 128])}

InitTpad ==
    /\ src \in {SourceClip(fmt, 1, 1, n) : fmt \in {GRAY8, RGBS}, n \in 1..MaxTpadLen}
    /\ cur = src
    /\ hist = <<>>

TpadStep ==
    /\ hist = <<>>
    /\ \E start, end \in 0..MaxTpadAdd, mode \in TpadModes(cur.fmt) :
        /\ cur' = tpad(cur, start, end, None, mode)
        /\ hist' = Append(hist, Call("tpad", <<start, end, mode>>))
    /\ UNCHANGED src

TrimStep ==
    /\ Len(hist) = 1 /\ cur.err = ""
    /\ cur' = trim(cur, None, None, None)
    /\ hist' = Append(hist, Call("trim", <<>>))
    /\ UNCHANGED src

TrimManualStep ==
    /\ Len(hist) = 1 /\ cur.err = ""
    /\ \E start, end \in {None} \cup {Some(v) : v \in (-1)..2},
          length \in {None} \cup {Some(v) : v \in 0..2} :
        /\ ~(IsNone(start) /\ IsNone(end) /\ IsNone(length))
        /\ cur' = trim(cur, start, end, length)
        /\ hist' = Append(hist, Call("trim_manual", <<start, end, length>>))
    /\ UNCHANGED src

NextTpad == TpadStep \/ TrimStep \/ TrimManualStep

SpecTpad == InitTpad /\ [][NextTpad]_vars

-----------------------------------------------------------------------------
(* markdups and skipdups.  A clip with its duplicate marks is a record:    *)
(* the clip, the mark of every frame (tiletools_markprops) and the         *)
(* identifier on its frames (tiletools_propsrcid, None when the frame      *)
(* properties were lost).  cur holds the module globals markdup_id and     *)
(* markdup_reg and the value the last call returned; a markdups entry of   *)
(* hist ends with the value that call returned.                            *)

MaxMarkCalls == 3
MaxMarkFrames == 3
max_back == 5

MarkRaise(e) == [err |-> e, clip |-> Raise(e), markprops |-> <<>>, propsrcid |-> None]

\* frame n (0-based) of _backshift(c, k)[k]: frame max(0, n - k) of c
BackshiftFrame(n, k) == Max(0, n - k)

\* the mark PropExpr computes for frame n from the differences to the
\* previous frame, lines 1323-1327: the run of frames under the threshold
\* that ends at n, counted from back offset i on and at most max_back long
RECURSIVE MarkExpr(_, _, _, _)
MarkExpr(diffs, thresh, n, i) ==
    IF i >= max_back THEN 0
    ELSE IF n > i /\ diffs[BackshiftFrame(n, i) + 1] < thresh
         THEN 1 + MarkExpr(diffs, thresh, n, i + 1)
         ELSE 0

\* an identifier counter that stands still
NextId_Same(this_id) == this_id

\* markdup_id += 1, line 1330
NextId(this_id) == this_id + 1

\* markdups(clip, thresh) up to the clip it returns; is_clip tells a
\* VapourSynth clip from any other argument, diffs are the differences the
\* BUTTERAUGLI plugin measures, this_id the value of markdup_id
markdups(clip, is_clip, thresh, diffs, this_id) ==
    IF ~is_clip THEN MarkRaise("TypeError")
    ELSE IF thresh < 0 THEN MarkRaise("ValueError")
    ELSE [err |-> "", clip |-> clip,
          markprops |-> [n \in 1..NumFrames(clip) |-> MarkExpr(diffs, thresh * 10, n - 1, 0)],
          propsrcid |-> Some(this_id)]

\* markdup_reg.get(this_id)
RegGet(markdup_reg, this_id) ==
    IF this_id \in DOMAIN markdup_reg THEN Some(markdup_reg[this_id]) ELSE None

\* the clip akarin.Select returns, lines 1384-1386: frame n is frame
\* n - shift of clip, the shift read from the mark of prop_src's frame n
SelectFrames(clip, prop_src) ==
    [clip EXCEPT !.frames = [m \in 1..NumFrames(clip) |->
        LET n     == m - 1
            mark  == prop_src.markprops[m]
            shift == IF mark < max_back THEN mark ELSE Min(n % max_back, mark)
        IN  clip.frames[BackshiftFrame(n, shift) + 1]]]

\* skipdups(clip) in auto mode (prop_src=None, debug=False): the result and
\* the prop source it resolved
skipdups(marked, markdup_reg) ==
    LET found    == IF IsNone(marked.propsrcid) THEN None
                    ELSE RegGet(markdup_reg, Val(marked.propsrcid))
        prop_src == Val(found)
    IN  IF marked.err # "" THEN [out |-> marked, prop_src |-> None]
        ELSE IF IsNone(marked.propsrcid) THEN [out |-> MarkRaise("KeyError"), prop_src |-> None]
        ELSE IF IsNone(found) THEN [out |-> MarkRaise("TypeError"), prop_src |-> None]
        ELSE IF NumFrames(marked.clip) # NumFrames(prop_src.clip)
             THEN [out |-> MarkRaise("ValueError"), prop_src |-> found]
        ELSE [out |-> [err |-> "", clip |-> SelectFrames(marked.clip, prop_src),
                       markprops |-> <<>>, propsrcid |-> None],
              prop_src |-> found]

InitMark ==
    /\ src \in {SourceClip(GRAY8, 1, 1, n) : n \in 1..MaxMarkFrames}
    /\ cur = [markdup_id |-> 1, markdup_reg |-> <<>>, out |-> MarkRaise(""), prop_src |-> None]
    /\ hist = <<>>

\* markdups with its updates of the globals, lines 1329-1333; every frame
\* differs from the one before it by d, the first by 0
MarkdupsStep ==
    /\ Len(hist) < MaxMarkCalls
    /\ \E is_clip \in BOOLEAN, thresh \in (-1)..1, d \in {0, 5, 50} :
        LET this_id == cur.markdup_id
            diffs   == [n \in 1..NumFrames(src) |-> IF n = 1 THEN 0 ELSE d]
            marked  == markdups(src, is_clip, thresh, diffs, this_id)
        IN  /\ cur' = IF marked.err # ""
                      THEN [cur EXCEPT !.out = marked, !.prop_src = None]
                      ELSE [markdup_id  |-> NextId(this_id),
                            markdup_reg |-> [i \in DOMAIN cur.markdup_reg \cup {this_id} |->
                                               IF i = this_id THEN marked
                                               ELSE cur.markdup_reg[i]],
                            out |-> marked, prop_src |-> None]
            /\ hist' = Append(hist, Call("markdups", <<is_clip, thresh, diffs, marked>>))
    /\ UNCHANGED src

\* skipdups on a clip one of the markdups calls returned, as it is, with its
\* frame properties lost, or with its last frame cut off
SkipdupsStep ==
    /\ Len(hist) < MaxMarkCalls
    /\ \E id \in DOMAIN cur.markdup_reg, how \in {"kept", "lost", "cut"} :
        LET given == cur.markdup_reg[id]
            clip  == IF how = "lost" THEN [given EXCEPT !.propsrcid = None]
                     ELSE IF how = "cut" /\ NumFrames(given.clip) > 1
                     THEN [given EXCEPT !.clip = ClipTo(given.clip, -1)]
                     ELSE given
            r     == skipdups(clip, cur.markdup_reg)
        IN  /\ cur' = [cur EXCEPT !.out = r.out, !.prop_src = r.prop_src]
            /\ hist' = Append(hist, Call("skipdups", <<id, how>>))
    /\ UNCHANGED src

NextMark == MarkdupsStep \/ SkipdupsStep

SpecMark == InitMark /\ [][NextMark]_vars

-----------------------------------------------------------------------------
(* The whole spatial chain: an optional pad, then tile, untile and crop in *)
(* auto mode.  The entry of a tile call holds the clip it was given.       *)

MaxChainW == 4
MaxChainH == 3
MaxChainPad == 2
MaxChainTile == 3

InitChain ==
    /\ src \in ValidSources({GRAY8, YUV420P8}, MaxChainW, MaxChainH, 1)
    /\ src.width >= 2 /\ src.height >= 2
    /\ cur = src
    /\ hist = <<>>

ChainPadStep ==
    /\ hist = <<>>
    /\ \E left, right, top \in 0..MaxChainPad, mode \in {StrMode("mirror"), StrMode("black")} :
        /\ cur' = pad(cur, left, right, top, 0, mode)
        /\ hist' = Append(hist, Call("pad", <<left, right, top, 0, mode>>))
    /\ UNCHANGED src

ChainTileStep ==
    /\ cur.err = ""
    /\ hist # <<>> => Last(hist).op = "pad"
    /\ \E width, height \in 2..MaxChainTile, overlap \in 0..1,
          padding \in {StrMode("mirror"), StrMode("black"), StrMode("discard")} :
        /\ cur' = tile(cur, width, height, overlap, overlap, padding)
        /\ hist' = Append(hist, Call("tile", <<cur, width, height, overlap, padding>>))
    /\ UNCHANGED src

ChainUntileStep ==
    /\ cur.err = "" /\ hist # <<>> /\ Last(hist).op = "tile"
    /\ cur' = untile(cur, FALSE, None, None, None)
    /\ hist' = Append(hist, Call("untile", <<>>))
    /\ UNCHANGED src

ChainCropStep ==
    /\ cur.err = "" /\ hist # <<>> /\ Last(hist).op = "untile"
    /\ cur' = crop(cur, None, None, None, None)
    /\ hist' = Append(hist, Call("crop", <<>>))
    /\ UNCHANGED src

NextChain == ChainPadStep \/ ChainTileStep \/ ChainUntileStep \/ ChainCropStep

SpecChain == InitChain /\ [][NextChain]_vars

-----------------------------------------------------------------------------
(* Claims about pad and crop, checked under SpecPad.                       *)

PadThenCrop == Len(hist) = 2 /\ hist[1].op = "pad" /\ hist[2].op = "crop"

PadResizeCrop ==
    Len(hist) = 3 /\ hist[1].op = "pad" /\ hist[2].op = "resize" /\ hist[3].op = "crop"

Abs(n) == IF n < 0 THEN -n ELSE n

\* C1: auto crop of a padded frame succeeds and returns a frame of the
\* original width and height whose pixel at (x, y) is the original frame's
\* pixel at (x, y), for every accepted choice of margins and padding mode.
C1_PadCropRoundTrip ==
    PadThenCrop =>
        /\ cur.err = ""
        /\ cur.width = src.width /\ cur.height = src.height
        /\ ImgW(cur.frames[1].img) = src.width /\ ImgH(cur.frames[1].img) = src.height
        /\ \A x \in 0..(src.width - 1), y \in 0..(src.height - 1) :
              Px(cur.frames[1].img, x, y) = Orig(0, x, y)

\* a mirror pad wider than the frame on the left and non-zero at the bottom
\* has been cropped again
C1_Witness ==
    /\ PadThenCrop /\ cur.err = ""
    /\ hist[1].args[1] > src.width /\ hist[1].args[4] > 0
    /\ hist[1].args[5] = StrMode("mirror")

\* C2: after a resize of the padded clip by an integer factor k on both
\* axes, auto crop succeeds and its output is k times the original width and
\* height, within one pixel.
C2_PadResizeCropScales ==
    PadResizeCrop =>
        /\ cur.err = ""
        /\ Abs(cur.width  - hist[2].args[1] * src.width)  <= 1
        /\ Abs(cur.height - hist[2].args[1] * src.height) <= 1

\* a clip padded on the left and the top, resized by 2 and cropped
C2_Witness ==
    /\ PadResizeCrop /\ cur.err = ""
    /\ hist[2].args[1] = 2
    /\ hist[1].args[1] > 0 /\ hist[1].args[3] > 0

-----------------------------------------------------------------------------
(* Claims about tile and untile, checked under SpecTile and SpecRetile.    *)

TileThenUntile(fade) ==
    Len(hist) = 2 /\ hist[1].op = "tile" /\ hist[2].op = "untile" /\ hist[2].args[1] = fade

TileArgs == hist[1].args
TileDiscards == TileArgs[5] = StrMode("discard")

\* the grid tile() makes of src under the arguments recorded in hist[1]
GridX ==
    IF TileDiscards THEN TilesFloor(src.width, TileArgs[1], TileArgs[1] - TileArgs[3])
    ELSE TilesCeil(src.width, TileArgs[1], TileArgs[1] - TileArgs[3])
GridY ==
    IF TileDiscards THEN TilesFloor(src.height, TileArgs[2], TileArgs[2] - TileArgs[4])
    ELSE TilesCeil(src.height, TileArgs[2], TileArgs[2] - TileArgs[4])

\* C3: auto untile (fade=False) of an accepted tile() returns the original
\* width and height when the padding is not "discard", and the exact-cover
\* extent tile + (tiles - 1) * stride, tiles by floor division, when it is.
C3_TileUntileDimensions ==
    TileThenUntile(FALSE) =>
        /\ cur.err = ""
        /\ Len(cur.frames) = Len(src.frames)
        /\ \A n \in 1..Len(cur.frames) :
              ImgW(cur.frames[n].img) = cur.width /\ ImgH(cur.frames[n].img) = cur.height
        /\ IF TileDiscards
           THEN /\ cur.width = TileArgs[1]
                      + ((src.width - TileArgs[1]) \div (TileArgs[1] - TileArgs[3]))
                        * (TileArgs[1] - TileArgs[3])
                /\ cur.height = TileArgs[2]
                      + ((src.height - TileArgs[2]) \div (TileArgs[2] - TileArgs[4]))
                        * (TileArgs[2] - TileArgs[4])
           ELSE cur.width = src.width /\ cur.height = src.height

\* a discarding tile() that dropped a remainder on the right and kept two or
\* more columns of tiles has been reassembled
C3_Witness ==
    /\ TileThenUntile(FALSE) /\ cur.err = "" /\ TileDiscards
    /\ cur.width < src.width /\ cur.width > TileArgs[1]

\* C4: with fade=False and unmodified tiles, every output coordinate inside
\* the original extent holds the original frame's pixel at that coordinate:
\* the kept regions of the tiles meet without gap or double coverage.
C4_TileUntileLossless ==
    TileThenUntile(FALSE) =>
        /\ cur.err = ""
        /\ \A n \in 1..Len(cur.frames) :
              \A x \in 0..(ImgW(cur.frames[n].img) - 1), y \in 0..(ImgH(cur.frames[n].img) - 1) :
                  (x < src.width /\ y < src.height) =>
                      Px(cur.frames[n].img, x, y) = Orig(n - 1, x, y)

\* two frames, three columns and two rows of padded tiles with odd overlaps
C4_Witness ==
    /\ TileThenUntile(FALSE) /\ cur.err = "" /\ ~TileDiscards
    /\ Len(cur.frames) = 2 /\ GridX >= 3 /\ GridY >= 2
    /\ TileArgs[3] % 2 = 1 /\ TileArgs[4] % 2 = 1
    /\ cur.width = src.width

\* C5: tile() emits F * tiles_x * tiles_y frames, output frame
\* f * tiles_x * tiles_y + row * tiles_x + col being the tile of input frame f
\* with top-left corner (col * stride_x, row * stride_y), and untile's
\* de-interleaving by that cycle gives position row * tiles_x + col that tile.
C5_GridPacking ==
    (Len(hist) = 1 /\ hist[1].op = "tile" /\ cur.err = "") =>
        LET T  == GridX * GridY
            sx == TileArgs[1] - TileArgs[3]
            sy == TileArgs[2] - TileArgs[4]
        IN  /\ Len(cur.frames) = Len(src.frames) * T
            /\ \A f \in 0..(Len(src.frames) - 1), row \in 0..(GridY - 1), col \in 0..(GridX - 1) :
                  /\ Px(cur.frames[f * T + row * GridX + col + 1].img, 0, 0)
                        = Orig(f, col * sx, row * sy)
                  /\ Px(Parts(cur, T)[row * GridX + col + 1].frames[f + 1].img, 0, 0)
                        = Orig(f, col * sx, row * sy)

\* a two-frame clip has been cut into at least two columns and two rows
C5_Witness ==
    /\ Len(hist) = 1 /\ hist[1].op = "tile" /\ cur.err = ""
    /\ Len(src.frames) = 2 /\ GridX >= 2 /\ GridY >= 2
    /\ Len(cur.frames) = 2 * GridX * GridY

\* C6: whatever extent the tiles were resized to, auto untile computes the
\* grid tile() used, and so does not fail on the frame count.
C6_ResizedTilesSameGrid ==
    /\ (Len(hist) = 2 /\ hist[1].op = "tile" /\ hist[2].op = "resize" /\ cur.err = "") =>
          LET g == UntileAuto(cur, Val(cur.frames[1].props.tile))
          IN  g.err = "" /\ g.tiles_x = GridX /\ g.tiles_y = GridY
    /\ (Len(hist) = 3 /\ hist[1].op = "tile" /\ hist[2].op = "resize" /\ hist[3].op = "untile") =>
          cur.err = ""

-----------------------------------------------------------------------------
(* Claims about window and unwindow, checked under SpecWin.                *)

WindowThenUnwindow(fade) ==
    Len(hist) = 2 /\ hist[1].op = "window" /\ hist[2].op = "unwindow" /\ hist[2].args[1] = fade

WinArgs == hist[1].args

\* C7: with 0 <= O < L, N a multiple of L - O and padding "repeat", auto
\* unwindow (fade=False) of the windowed clip succeeds and its first N frames
\* are the N frames of the source, in order.
C7_WindowUnwindowRoundTrip ==
    (/\ WindowThenUnwindow(FALSE)
     /\ WinArgs[1] >= 1 /\ WinArgs[2] >= 0 /\ WinArgs[2] < WinArgs[1]
     /\ WinArgs[3] = StrMode("repeat")
     /\ Len(src.frames) % (WinArgs[1] - WinArgs[2]) = 0) =>
        /\ cur.err = ""
        /\ Len(cur.frames) >= Len(src.frames)
        /\ \A n \in 1..Len(src.frames) : cur.frames[n] = src.frames[n]

\* three windows of four frames, two of them shared, the last one padded
C7_Witness ==
    /\ WindowThenUnwindow(FALSE) /\ cur.err = ""
    /\ WinArgs = <<4, 2, StrMode("repeat")>>
    /\ Len(src.frames) = 6

-----------------------------------------------------------------------------
(* Claim about _split_overlap, checked under SpecSplit.                    *)

\* C8: for overlap >= 0 and alignment >= 1 the split (near, far) has
\* near + far equal to the overlap rounded down to a multiple of the
\* alignment, near and far multiples of the alignment, and neither negative.
C8_SplitOverlap ==
    (Len(hist) = 1 /\ hist[1].op = "_split_overlap") =>
        LET overlap == src[1]
            unit    == src[2]
            near    == cur[1]
            far     == cur[2]
        IN  /\ near + far = overlap - (overlap % unit)
            /\ near % unit = 0 /\ far % unit = 0
            /\ near >= 0 /\ far >= 0

\* an overlap that is not a multiple of the alignment and splits unevenly
C8_Witness ==
    /\ Len(hist) = 1 /\ hist[1].op = "_split_overlap"
    /\ src = <<7, 2>> /\ cur = <<2, 4>>

-----------------------------------------------------------------------------
(* Claims about crossfade, checked under SpecMask and SpecFade.            *)

\* the level of mask frame n (1-based) as a pair <<numerator, denominator>>
Level(n) == <<cur.frames[n].img[1][1][2], cur.frames[n].img[1][1][3]>>

StrictlyIncreasing ==
    \A n \in 1..(Len(cur.frames) - 1) : Level(n)[1] < Level(n + 1)[1]

StrictlyInside ==
    \A n \in 1..Len(cur.frames) : 0 < Level(n)[1] /\ Level(n)[1] < Level(n)[2]

MaskMade == Len(hist) = 1 /\ hist[1].op = "mask" /\ cur.err = ""

\* C9 as stated: for every length >= 1 and every sample representation the
\* mask weights are strictly increasing and strictly between 0 and the peak.
C9_WeightsStrictEveryLength ==
    MaskMade => (StrictlyIncreasing /\ StrictlyInside)

\* C9: the mask has one frame per faded frame; on a float format the weights
\* (i + 1) / (length + 1) are strictly increasing and strictly between 0 and 1;
\* on an integer format the levels round(peak * (i + 1) / (length + 1)) are
\* strictly increasing and strictly between 0 and peak exactly when
\* length < peak.
C9_WeightsStrictBelowPeak ==
    MaskMade =>
        LET length == hist[1].args[1]
            peak   == 2^src.fmt.bits - 1
        IN  /\ Len(cur.frames) = length
            /\ src.fmt.st = "FLOAT" => (StrictlyIncreasing /\ StrictlyInside)
            /\ src.fmt.st = "INTEGER" =>
                  ((StrictlyIncreasing /\ StrictlyInside) <=> length < peak)

\* an 8-bit mask of 254 levels, the longest that is still strict
C9_Witness ==
    /\ MaskMade /\ src.fmt = GRAY8 /\ hist[1].args[1] = 254
    /\ StrictlyIncreasing /\ StrictlyInside

Crossfaded == Len(hist) = 1 /\ hist[1].op = "crossfade"

FadeLength == hist[1].args[1]

Matching == src.a.fmt = src.b.fmt /\ src.a.width = src.b.width /\ src.a.height = src.b.height

\* C10: on clips of matching format and dimensions, crossfade with
\* length <= 0 returns A followed by B unchanged; with
\* 1 <= length <= min(len(A), len(B)) it returns A without its last length
\* frames, then length frames of which frame i is A[len(A) - length + i]
\* merged with B[i] under mask frame i, then B without its first length
\* frames: len(A) + len(B) - length frames in all.
C10_CrossfadeStructure ==
    (Crossfaded /\ Matching) =>
        LET A  == src.a.frames
            B  == src.b.frames
            L  == FadeLength
        IN  /\ L <= 0 => (cur.err = "" /\ cur.frames = A \o B)
            /\ (1 <= L /\ L <= Min(Len(A), Len(B))) =>
                  /\ cur.err = ""
                  /\ Len(cur.frames) = Len(A) + Len(B) - L
                  /\ \A n \in 1..(Len(A) - L) : cur.frames[n] = A[n]
                  /\ \A i \in 0..(L - 1) :
                        cur.frames[Len(A) - L + i + 1].img =
                            MaskedMergeImg(A[Len(A) - L + i + 1].img, B[i + 1].img,
                                           <<<<FadeLevel(src.a.fmt, i, L)>>>>)
                  /\ \A n \in 1..(Len(B) - L) : cur.frames[Len(A) + n] = B[L + n]

\* a fade of two frames between clips of four and three frames
C10_Witness ==
    /\ Crossfaded /\ Matching /\ cur.err = ""
    /\ Len(src.a.frames) = 4 /\ Len(src.b.frames) = 3 /\ FadeLength = 2
    /\ Len(cur.frames) = 5
    /\ cur.frames[3].img[1][1][1] = "x"

-----------------------------------------------------------------------------
(* Claim about the bound on the grid, checked under SpecBig.               *)

\* C11: a tile() call with otherwise accepted arguments fails, with no
\* output, exactly when tiles_x * tiles_y exceeds 1024, under "discard" and
\* under a padding mode alike; auto untile of its output does not fail; manual
\* untile fails whenever the grid it computes exceeds 1024.
C11_GridBound ==
    /\ (Len(hist) = 1 /\ hist[1].op = "tile") =>
          /\ cur.err = "" <=> GridX * GridY <= max_tiles
          /\ cur.err # "" => cur.frames = <<>>
    /\ (Len(hist) = 2 /\ hist[2].op = "untile") => cur.err = ""
    /\ (Len(hist) = 2 /\ hist[2].op = "untile_manual") =>
          LET T  == hist[2].args
              nx == TilesCeil(T[1], 2, 2 - T[3])
              ny == TilesCeil(T[2], 2, 2 - T[3])
          IN  nx * ny > max_tiles => (cur.err # "" /\ cur.frames = <<>>)

\* a grid of exactly 1024 tiles has been cut and reassembled
C11_Witness ==
    /\ Len(hist) = 2 /\ hist[2].op = "untile" /\ cur.err = ""
    /\ GridX * GridY = max_tiles
    /\ cur.width = src.width /\ cur.height = src.height

-----------------------------------------------------------------------------
(* Claim about the number of windows, checked under SpecLong.              *)

\* the windows window() starts on a clip of n frames: one every stride frames
WindowStarts(n, length, overlap) == (n + (length - overlap) - 1) \div (length - overlap)

\* C12: window() fails, with no output, whenever the number of windows it
\* would emit exceeds 1024.
C12_WindowCountBounded ==
    (/\ Len(hist) = 1 /\ hist[1].op = "window"
     /\ hist[1].args[2] < hist[1].args[1]
     /\ WindowStarts(Len(src.frames), hist[1].args[1], hist[1].args[2]) > max_tiles) =>
        (cur.err # "" /\ cur.frames = <<>>)

-----------------------------------------------------------------------------
(* Claim about sizes and overlaps, checked under SpecArgs.                 *)

Rejected == cur.err # "" /\ cur.frames = <<>>

\* C13: tile() is rejected whenever an overlap is negative or not smaller
\* than the tile size of its axis, or a tile size is 1 or less; window() is
\* rejected whenever the overlap is negative or not smaller than the length;
\* in every accepted call each stride, size minus overlap, is at least 1.
C13_SizesAndOverlaps ==
    /\ (Len(hist) = 1 /\ hist[1].op = "tile") =>
          LET a == hist[1].args
          IN  /\ (a[3] < 0 \/ a[4] < 0 \/ a[3] >= a[1] \/ a[4] >= a[2]) => Rejected
              /\ (a[1] <= 1 \/ a[2] <= 1) => Rejected
              /\ cur.err = "" => (a[1] - a[3] >= 1 /\ a[2] - a[4] >= 1)
    /\ (Len(hist) = 1 /\ hist[1].op = "window") =>
          LET a == hist[1].args
          IN  /\ (a[2] < 0 \/ a[2] >= a[1]) => Rejected
              /\ cur.err = "" => a[1] - a[2] >= 1

\* a tile() call whose horizontal overlap equals the tile width was rejected
C13_Witness ==
    /\ Len(hist) = 1 /\ hist[1].op = "tile" /\ Rejected
    /\ hist[1].args[1] = 2 /\ hist[1].args[3] = 2
    /\ hist[1].args[2] = 2 /\ hist[1].args[4] = 0

-----------------------------------------------------------------------------
(* Claim about the bounds of crop, checked under SpecCrop.                 *)

CropCalled == hist # <<>> /\ Last(hist).op \in {"crop", "crop_manual"}

\* the clip the last crop() was called on, from src and the calls before it
CropInput ==
    IF Len(hist) = 1 THEN src
    ELSE LET a == hist[1].args
             p == pad(src, a[1], a[2], a[3], a[4], a[5])
         IN  IF Len(hist) = 2 THEN p ELSE Resize(p, hist[2].args[1], hist[2].args[2])

\* a margin of the caller, 0 when left out
Given(o) == IF o = <<>> THEN 0 ELSE o[1]

\* the margins the last crop() works with: the caller's, or the recorded ones
\* rescaled by the ratio of the current to the padded extent and rounded
CropMargins ==
    IF Last(hist).op = "crop_manual"
    THEN LET a == Last(hist).args
         IN  [left |-> Given(a[1]), right |-> Given(a[2]),
              top |-> Given(a[3]), bottom |-> Given(a[4])]
    ELSE LET c == hist[1].args
         IN  [left   |-> PyRound(c[1] * CropInput.width,  src.width + c[1] + c[2]),
              right  |-> PyRound(c[2] * CropInput.width,  src.width + c[1] + c[2]),
              top    |-> PyRound(c[3] * CropInput.height, src.height + c[3] + c[4]),
              bottom |-> PyRound(c[4] * CropInput.height, src.height + c[3] + c[4])]

CropExceeds ==
    \/ CropMargins.left + CropMargins.right >= CropInput.width
    \/ CropMargins.top + CropMargins.bottom >= CropInput.height

CropReturnsExact ==
    /\ cur.err = ""
    /\ cur.width  = CropInput.width  - CropMargins.left - CropMargins.right
    /\ cur.height = CropInput.height - CropMargins.top  - CropMargins.bottom
    /\ \A n \in 1..Len(cur.frames) :
          ImgW(cur.frames[n].img) = cur.width /\ ImgH(cur.frames[n].img) = cur.height

CropMisaligned ==
    \/ CropMargins.left % SubW(src.fmt) # 0 \/ CropMargins.right % SubW(src.fmt) # 0
    \/ CropMargins.top % SubH(src.fmt) # 0 \/ CropMargins.bottom % SubH(src.fmt) # 0

CropNegative ==
    \E k \in {CropMargins.left, CropMargins.right, CropMargins.top, CropMargins.bottom} : k < 0

\* C14 as stated, for margins that are not negative: crop() fails whenever
\* left + right >= width or top + bottom >= height, and otherwise returns a
\* frame of exactly (width - left - right) x (height - top - bottom).
C14_CropFailsOnlyOnBounds ==
    (CropCalled /\ ~CropNegative) => IF CropExceeds THEN Rejected ELSE CropReturnsExact

\* C14: crop(), with margins given manually or derived from the Pad Record,
\* fails whenever left + right >= width or top + bottom >= height; it also
\* fails when a margin is negative or not a multiple of the subsampling of
\* its axis; in every other case it returns a frame of exactly
\* (width - left - right) x (height - top - bottom).
C14_CropBounds ==
    CropCalled =>
        IF CropExceeds \/ CropNegative \/ CropMisaligned THEN Rejected ELSE CropReturnsExact

\* a manual crop whose left and right margins add up to the width was
\* rejected, the margins being aligned and not negative
C14_Witness ==
    /\ CropCalled /\ Last(hist).op = "crop_manual" /\ Rejected
    /\ ~CropNegative /\ ~CropMisaligned
    /\ CropMargins.left + CropMargins.right = CropInput.width
    /\ CropMargins.top + CropMargins.bottom < CropInput.height

-----------------------------------------------------------------------------
(* Claims about records, checked under SpecRec.                            *)

Consumers == {"crop", "untile", "unwindow"}

ConsumerCalled == hist # <<>> /\ Last(hist).op \in Consumers

\* the record kind each consuming operation reads and removes
Consumed(op) == IF op = "crop" THEN "pad" ELSE IF op = "untile" THEN "tile" ELSE "win"

ConsumerManual == Last(hist).args[1]

ConsumerInput == Last(hist).args[2]

InputLacksRecord == ConsumerInput.frames[1].props[Consumed(Last(hist).op)] = <<>>

\* C15: crop, untile or unwindow called without manual geometry on a clip
\* whose first frame has no record of the matching kind raises an error and
\* returns no clip.
C15_NoRecordNoOutput ==
    (ConsumerCalled /\ ~ConsumerManual /\ InputLacksRecord) => Rejected

\* auto untile of a padded, untiled clip was rejected
C15_Witness ==
    /\ ConsumerCalled /\ Last(hist).op = "untile" /\ ~ConsumerManual
    /\ InputLacksRecord /\ ConsumerInput.frames[1].props.pad # <<>>
    /\ cur.err = "KeyError"

\* the grid untile computes for the clip it was given
UntileGrid ==
    LET input == ConsumerInput
        k     == Last(hist).args[3]
    IN  IF ConsumerManual
        THEN UntileManual(input, k * input.width, k * input.height, <<0, 0>>)
        ELSE UntileAuto(input, Val(input.frames[1].props.tile))

UntileReachedCount ==
    /\ ConsumerCalled /\ Last(hist).op = "untile"
    /\ (ConsumerManual \/ ~InputLacksRecord)
    /\ UntileGrid.err = ""
    /\ UntileGrid.tiles_x * UntileGrid.tiles_y <= max_tiles

\* C16: untile raises a ValueError when the number of frames it is given is not
\* a multiple of tiles_x * tiles_y, and a clip it returns has the number of
\* frames divided by tiles_x * tiles_y.
C16_FrameCount ==
    UntileReachedCount =>
        LET num_tiles == UntileGrid.tiles_x * UntileGrid.tiles_y
            n         == NumFrames(ConsumerInput)
        IN  IF n % num_tiles # 0 THEN Rejected /\ cur.err = "ValueError"
            ELSE cur.err = "" => NumFrames(cur) * num_tiles = n

\* auto untile of a tiled clip that gained a frame was rejected
C16_Witness ==
    /\ UntileReachedCount /\ ~ConsumerManual
    /\ UntileGrid.tiles_x * UntileGrid.tiles_y > 1
    /\ NumFrames(ConsumerInput) % (UntileGrid.tiles_x * UntileGrid.tiles_y) # 0
    /\ Rejected

-----------------------------------------------------------------------------
(* Claims about zero padding, checked under SpecPad.                       *)

ZeroPadCalled ==
    /\ hist # <<>> /\ hist[1].op = "pad"
    /\ \A i \in 1..4 : hist[1].args[i] = 0

SameAsSource ==
    /\ cur.err = ""
    /\ cur.width = src.width /\ cur.height = src.height
    /\ cur.frames[1].img = src.frames[1].img

\* C17: pad with four zero margins returns the pixels and dimensions it was
\* given and attaches a Pad Record whose pad values are all 0; auto crop of
\* that result succeeds and returns the same dimensions.
C17_ZeroPad ==
    /\ (ZeroPadCalled /\ Len(hist) = 1) =>
            /\ SameAsSource
            /\ cur.frames[1].props.pad = <<PadCfg(src.width, src.height, 0, 0, 0, 0)>>
    /\ (ZeroPadCalled /\ Len(hist) = 2 /\ hist[2].op = "crop") =>
            /\ SameAsSource
            /\ cur.frames[1].props.pad = <<>>

\* a subsampled clip padded by zero with a mode pad does not know, then
\* cropped in auto mode
C17_Witness ==
    /\ ZeroPadCalled /\ Len(hist) = 2 /\ hist[2].op = "crop"
    /\ hist[1].args[5] = StrMode("bogus")
    /\ src.fmt = YUV420P8
    /\ SameAsSource

RecordKinds == {"pad", "tile", "win", "tpad"}

ConsumerReturned == ConsumerCalled /\ cur.err = ""

\* C18: a clip returned by crop, untile or unwindow carries, on no frame, a
\* record of the kind the operation consumes; each record of another kind on
\* a frame of the result is the record of that kind of a frame it was given,
\* and the first frame has the other records of the first frame given.
C18_RecordsAfterConsumer ==
    ConsumerReturned =>
        LET key    == Consumed(Last(hist).op)
            given  == ConsumerInput.frames
        IN  /\ \A i \in 1..NumFrames(cur) :
                /\ cur.frames[i].props[key] = <<>>
                /\ \A k \in RecordKinds \ {key} :
                      \E j \in 1..Len(given) : cur.frames[i].props[k] = given[j].props[k]
            /\ \A k \in RecordKinds \ {key} :
                  cur.frames[1].props[k] = given[1].props[k]

\* auto unwindow with fade returned a clip of tiles: the Tile Record is
\* still there, the Window Record is not
C18_Witness ==
    /\ ConsumerReturned /\ Last(hist).op = "unwindow" /\ ~ConsumerManual
    /\ ConsumerInput.frames[1].props.tile # <<>>
    /\ ConsumerInput.frames[1].props.win # <<>>
    /\ Val(ConsumerInput.frames[1].props.win).overlap = 1
    /\ cur.frames[1].props.tile = ConsumerInput.frames[1].props.tile

-----------------------------------------------------------------------------
(* Claims about chroma subsampling, checked under SpecAlign.               *)

AlignInput == Last(hist).args[1]

AlignReturned(op) == hist # <<>> /\ Last(hist).op = op /\ cur.err = ""

OnGridW(v) == v % SubW(AlignInput.fmt) = 0

OnGridH(v) == v % SubH(AlignInput.fmt) = 0

\* the margins pad adds
PadApplied ==
    LET a == Last(hist).args
    IN  OnGridW(a[2]) /\ OnGridW(a[3]) /\ OnGridH(a[4]) /\ OnGridH(a[5])

\* the margins crop removes, given or rescaled from the Pad Record
CropApplied ==
    LET a      == Last(hist).args
        manual == \E i \in 2..5 : a[i] # None
        m      == IF manual
                  THEN [left |-> IF a[2] = None THEN 0 ELSE Val(a[2]), right |-> 0,
                        top |-> IF a[4] = None THEN 0 ELSE Val(a[4]), bottom |-> 0]
                  ELSE AutoCropMargins(Val(AlignInput.frames[1].props.pad),
                                       AlignInput.width, AlignInput.height)
    IN  OnGridW(m.left) /\ OnGridW(m.right) /\ OnGridH(m.top) /\ OnGridH(m.bottom)

\* the tile size, the overlap, the stride of the tile offsets and the
\* padding tile adds on the right
TileApplied ==
    LET a       == Last(hist).args
        width   == a[2]
        height  == a[3]
        overlap == a[4]
        stride  == width - overlap
        tiles_x == TilesCeil(AlignInput.width, width, stride)
        pad_r   == width + (tiles_x - 1) * stride - AlignInput.width
    IN  /\ OnGridW(width) /\ OnGridH(height) /\ OnGridW(overlap) /\ OnGridW(stride)
        /\ (a[5] # StrMode("discard")) => OnGridW(pad_r)

\* the overlap untile cuts between neighbouring tiles (the whole overlap
\* with fade, its two halves without) and the padding it removes
UntileApplied ==
    LET a      == Last(hist).args
        fade   == a[2]
        manual == a[3] # None
        g      == IF manual THEN UntileManual(AlignInput, Val(a[3]), Val(a[4]), Val(a[5]))
                  ELSE UntileAuto(AlignInput, Val(AlignInput.frames[1].props.tile))
        half_w == _split_overlap(g.overlap_width, g.sub_w)
        half_h == _split_overlap(g.overlap_height, g.sub_h)
    IN  /\ g.tiles_x > 1 =>
              IF fade THEN OnGridW(g.overlap_width)
              ELSE OnGridW(half_w[1]) /\ OnGridW(half_w[2])
        /\ g.tiles_y > 1 =>
              IF fade THEN OnGridH(g.overlap_height)
              ELSE OnGridH(half_h[1]) /\ OnGridH(half_h[2])
        /\ OnGridW(g.pad_r) /\ OnGridH(g.pad_b)

\* C19: when pad, crop, tile or untile returns a clip of a subsampled
\* format, every margin, overlap, offset and extent it applied to the
\* pixels, and the size of the result, is a multiple of the subsampling of
\* its axis; with anything else the call raises an error.
C19_AppliedOnGrid ==
    /\ AlignReturned("pad") => PadApplied
    /\ AlignReturned("crop") => CropApplied
    /\ AlignReturned("tile") => TileApplied
    /\ AlignReturned("untile") => UntileApplied
    /\ (hist # <<>> /\ cur.err = "") => OnGridW(cur.width) /\ OnGridH(cur.height)

\* the overlap rescaled from the Tile Record and clamped to tile width - 1
UntileClampedOverlap ==
    /\ hist # <<>> /\ Last(hist).op = "untile" /\ Last(hist).args[3] = None
    /\ UntileAuto(AlignInput, Val(AlignInput.frames[1].props.tile)).err = ""
    /\ UntileAuto(AlignInput, Val(AlignInput.frames[1].props.tile)).overlap_width
            = AlignInput.width - 1
    /\ UntileAuto(AlignInput, Val(AlignInput.frames[1].props.tile)).tiles_x > 1

\* auto untile with fade of resized tiles whose clamped overlap is odd was
\* rejected by core.std.Crop
C19_Witness ==
    /\ UntileClampedOverlap
    /\ NumFrames(AlignInput)
          % UntileAuto(AlignInput, Val(AlignInput.frames[1].props.tile)).tiles_x = 0
    /\ Last(hist).args[2] /\ cur.err = "vs.Error"

-----------------------------------------------------------------------------
(* Claims about tpad and trim, checked under SpecTpad.                     *)

TpadCalled == hist # <<>> /\ hist[1].op = "tpad"

TpadStart == hist[1].args[1]

TpadEnd == hist[1].args[2]

\* the source frame a ping-pong reflection of n frames shows at position i,
\* i counted from the first source frame (negative before it)
Reflect(i, n) ==
    IF n = 1 THEN 0
    ELSE LET r == i % (2 * n - 2)
         IN  IF r < n THEN r ELSE (2 * n - 2) - r

\* C20: tpad(seq, start, end, mode) of N >= 1 frames has N + start + end
\* frames with the frames of seq at positions start..start+N-1; auto trim
\* of it returns the N frames of seq in order; in mirror mode every frame of
\* the padded clip is the ping-pong reflection of seq at its position.
C20_TpadTrim ==
    /\ (TpadCalled /\ Len(hist) = 1) =>
          /\ cur.err = ""
          /\ NumFrames(cur) = NumFrames(src) + TpadStart + TpadEnd
          /\ \A i \in 1..NumFrames(src) : cur.frames[TpadStart + i].img = src.frames[i].img
          /\ hist[1].args[3] = StrMode("mirror") =>
                \A p \in 1..NumFrames(cur) :
                    cur.frames[p].img
                        = src.frames[Reflect(p - 1 - TpadStart, NumFrames(src)) + 1].img
    /\ (TpadCalled /\ Len(hist) = 2 /\ hist[2].op = "trim") =>
          /\ cur.err = ""
          /\ cur.frames = src.frames

\* three frames padded in mirror mode by more than a whole ping-pong at
\* both ends, then trimmed
C20_Witness ==
    /\ TpadCalled /\ Len(hist) = 2 /\ hist[2].op = "trim"
    /\ hist[1].args[3] = StrMode("mirror")
    /\ NumFrames(src) = 3 /\ TpadStart > 4 /\ TpadEnd > 4
    /\ cur.frames = src.frames

-----------------------------------------------------------------------------
(* Claims about the windows window emits, checked under SpecWin.           *)

WindowReturned == Len(hist) = 1 /\ hist[1].op = "window" /\ cur.err = ""

\* C21: the Window Record's padding tag is "color" when the padding given
\* is a list of values or a single number, the mode name when it is a
\* string, and "none" when it is absent.
C21_PaddingTag ==
    WindowReturned =>
        LET padding == WinArgs[3]
            tag     == Val(cur.frames[1].props.win).padding
        IN  /\ padding.kind \in {"list", "real"} => tag = "color"
            /\ padding.kind = "str" => tag = padding.s
            /\ padding.kind = "none" => tag = "none"

\* the windows of the call, as the loop appended them
EmittedWindows == WindowList(src, WinArgs[1], WinArgs[2], WinArgs[3]).list

\* C22: every window emitted has exactly L frames except possibly the last
\* one, so at most one window is shorter than L.
C22_OnlyLastShort ==
    WindowReturned =>
        LET w == EmittedWindows
        IN  /\ \A k \in 1..(Len(w) - 1) : NumFrames(w[k]) = WinArgs[1]
            /\ Cardinality({k \in 1..Len(w) : NumFrames(w[k]) < WinArgs[1]}) <= 1

-----------------------------------------------------------------------------
(* Claim about the rounding of rescaled geometry, checked under SpecCrop.  *)

\* floor(value * to_extent / from_extent + 1/2)
RoundHalfUp(value, to_extent, from_extent) ==
    (2 * value * to_extent + from_extent) \div (2 * from_extent)

AutoCropReturned ==
    /\ Len(hist) >= 2 /\ hist[1].op = "pad" /\ Last(hist).op = "crop" /\ cur.err = ""

\* C23: the margins auto crop removes are the recorded margins times the
\* current extent over the padded extent, rounded half up: the clip it
\* returns is smaller than the clip it was given by exactly those margins.
C23_RescaleHalfUp ==
    AutoCropReturned =>
        LET c  == hist[1].args
            pw == src.width + c[1] + c[2]
            ph == src.height + c[3] + c[4]
            w  == CropInput.width
            h  == CropInput.height
        IN  /\ cur.width  = w - RoundHalfUp(c[1], w, pw) - RoundHalfUp(c[2], w, pw)
            /\ cur.height = h - RoundHalfUp(c[3], h, ph) - RoundHalfUp(c[4], h, ph)

-----------------------------------------------------------------------------
(* Claim about the overlap of auto untile, checked under SpecClamp.        *)

\* C24: for a Tile Record with 0 <= overlap < tile size and tiles of any
\* extent >= 1, the overlap auto untile uses lies in 0..extent - 1 and the
\* stride is at least 1.
C24_OverlapClamped ==
    (Len(hist) = 1 /\ hist[1].op = "untile") =>
        /\ cur.overlap >= 0 /\ cur.overlap <= src[3] - 1
        /\ cur.stride >= 1

\* tiles of 8 with overlap 6 resized to 2 on a subsampled axis: the
\* rescaled overlap 2 is cut to 1
C24_Witness ==
    /\ Len(hist) = 1 /\ hist[1].op = "untile"
    /\ src = <<8, 6, 2, 2>> /\ cur.overlap = 1 /\ cur.stride = 1

-----------------------------------------------------------------------------
(* Claims about the grid of tile, checked under SpecTile.  The grid is     *)
(* read off the tiles: the first frames of the result are the tiles of the *)
(* first source frame, and the top left pixel of a tile is the source      *)
(* pixel the tile starts at.                                               *)

TileReturned == Len(hist) = 1 /\ hist[1].op = "tile" /\ cur.err = ""

TilesPerFrame == NumFrames(cur) \div NumFrames(src)

TileCorner(k) == cur.frames[k].img[1][1]

\* the source column and row a tile starts at, -1 for a tile that starts
\* outside the source
CornerX(k) == IF TileCorner(k)[1] = "o" THEN TileCorner(k)[3] ELSE -1

CornerY(k) == IF TileCorner(k)[1] = "o" THEN TileCorner(k)[4] ELSE -1

\* the tiles of the first row, and of the first column
SeenTilesX == Cardinality({k \in 1..TilesPerFrame : CornerY(k) = 0})

SeenTilesY == Cardinality({k \in 1..TilesPerFrame : CornerX(k) = 0})

CeilDiv(a, b) == IF a % b = 0 THEN a \div b ELSE a \div b + 1

\* chunk_count(total, chunk, stride)
ChunkCount(total, chunk, stride) ==
    IF total <= chunk THEN 1 ELSE 1 + CeilDiv(total - chunk, stride)

\* the claim on one axis: orig the source extent, size the tile size,
\* stride the tile size less the overlap, tiles the count seen
AxisGrid(orig, size, stride, tiles) ==
    LET extent == size + (tiles - 1) * stride
    IN  IF TileDiscards
        THEN /\ extent <= orig /\ extent + stride > orig
             /\ orig - extent >= 0 /\ orig - extent < stride
        ELSE /\ tiles = ChunkCount(orig, size, stride)
             /\ extent - orig >= 0
             /\ orig >= size => extent - orig < stride

\* C25: on each axis, without "discard" the tile count is 1 if orig <= tile
\* and 1 + ceil((orig - tile) / stride) otherwise, the trailing pad is not
\* negative and, when orig >= tile, less than the stride; with "discard"
\* the extent used is the largest tile + k * stride not above orig and the
\* remainder cut off is in 0..stride-1.
C25_TileGrid ==
    TileReturned =>
        /\ TilesPerFrame = SeenTilesX * SeenTilesY
        /\ AxisGrid(src.width, TileArgs[1], TileArgs[1] - TileArgs[3], SeenTilesX)
        /\ AxisGrid(src.height, TileArgs[2], TileArgs[2] - TileArgs[4], SeenTilesY)

\* a frame 4 wide cut into tiles of 3 with overlap 1 and padded by one
\* column: two tiles to a row
C25_Witness ==
    /\ TileReturned /\ ~TileDiscards
    /\ src.width = 4 /\ TileArgs[1] = 3 /\ TileArgs[3] = 1
    /\ SeenTilesX = 2

-----------------------------------------------------------------------------
(* Further claims about window, checked under SpecWin.                     *)

\* a padding window knows: a mode name, "discard", "none" or None, or a
\* colour
SupportedPadding(padding) ==
    \/ padding.kind \in {"none", "real", "list"}
    \/ IsStr(padding, {"mirror", "loop", "repeat", "black", "discard", "none"})

\* C26: window called with a padding that is neither a supported tag nor a
\* colour raises an error, whatever the length of the clip, also when no
\* window is shorter than length.
C26_BadPaddingRejected ==
    (Len(hist) = 1 /\ hist[1].op = "window" /\ ~SupportedPadding(WinArgs[3])) => Rejected

-----------------------------------------------------------------------------
(* Claim about the registry of markdups, checked under SpecMark.           *)

\* the markdups calls that returned a clip, by their position in hist
MarkCalls == {k \in 1..Len(hist) : hist[k].op = "markdups" /\ hist[k].args[4].err = ""}

Returned(k) == hist[k].args[4]

AssignedId(k) == Val(Returned(k).propsrcid)

\* C27: the identifiers markdups assigns start at 1, grow strictly from
\* call to call and are pairwise distinct; the registry holds, for each
\* identifier assigned, the clip the call returned, and nothing else; the
\* counter is 1 more than the number of calls that returned a clip, so a
\* rejected call changes neither; auto skipdups resolves the identifier on
\* a clip to the clip registered under it.
C27_Registry ==
    /\ \A k \in MarkCalls : AssignedId(k) >= 1
    /\ MarkCalls # {} => \E k \in MarkCalls : AssignedId(k) = 1
    /\ \A j, k \in MarkCalls : j < k => AssignedId(j) < AssignedId(k)
    /\ DOMAIN cur.markdup_reg = {AssignedId(k) : k \in MarkCalls}
    /\ \A k \in MarkCalls : cur.markdup_reg[AssignedId(k)] = Returned(k)
    /\ cur.markdup_id = 1 + Cardinality(MarkCalls)
    /\ (hist # <<>> /\ Last(hist).op = "skipdups" /\ Last(hist).args[2] = "kept") =>
          /\ cur.out.err = ""
          /\ \E k \in MarkCalls :
                AssignedId(k) = Last(hist).args[1] /\ cur.prop_src = Some(Returned(k))

\* two clips marked, then skipdups on the first
C27_Witness ==
    /\ Len(hist) = MaxMarkCalls /\ Last(hist).op = "skipdups"
    /\ Last(hist).args = <<1, "kept">>
    /\ Cardinality(MarkCalls) = 2
    /\ cur.out.err = "" /\ cur.prop_src = Some(Returned(1))

\* the extent of the frame tile cuts its tiles from, after its own padding
\* or its own crop
FittedW == TileArgs[1] + (SeenTilesX - 1) * (TileArgs[1] - TileArgs[3])

FittedH == TileArgs[2] + (SeenTilesY - 1) * (TileArgs[2] - TileArgs[4])

\* the rectangle of tile k, in row-major order
TileLeft(k) == ((k - 1) % SeenTilesX) * (TileArgs[1] - TileArgs[3])

TileTop(k) == ((k - 1) \div SeenTilesX) * (TileArgs[2] - TileArgs[4])

\* tile k holds the source pixels of its rectangle, where the rectangle
\* lies over the source
TileShowsRectangle(k) ==
    \A x \in 1..TileArgs[1], y \in 1..TileArgs[2] :
        (TileLeft(k) + x <= src.width /\ TileTop(k) + y <= src.height) =>
            cur.frames[k].img[y][x] = Orig(0, TileLeft(k) + x - 1, TileTop(k) + y - 1)

\* C28: every tile is the rectangle [left, left + tile_w) x [top, top +
\* tile_h) of the frame as tile padded or cropped it, the rectangle lies
\* inside that frame, and the rectangles together cover the frame.
C28_TilesInsideAndCover ==
    TileReturned =>
        /\ TilesPerFrame = SeenTilesX * SeenTilesY
        /\ cur.width = TileArgs[1] /\ cur.height = TileArgs[2]
        /\ IF TileDiscards THEN FittedW <= src.width /\ FittedH <= src.height
           ELSE FittedW >= src.width /\ FittedH >= src.height
        /\ \A k \in 1..TilesPerFrame :
              /\ TileLeft(k) >= 0 /\ TileLeft(k) + TileArgs[1] <= FittedW
              /\ TileTop(k) >= 0 /\ TileTop(k) + TileArgs[2] <= FittedH
              /\ ImgW(cur.frames[k].img) = TileArgs[1]
              /\ ImgH(cur.frames[k].img) = TileArgs[2]
              /\ TileShowsRectangle(k)
        /\ \A x \in 0..(FittedW - 1), y \in 0..(FittedH - 1) :
              \E k \in 1..TilesPerFrame :
                  /\ TileLeft(k) <= x /\ x < TileLeft(k) + TileArgs[1]
                  /\ TileTop(k) <= y /\ y < TileTop(k) + TileArgs[2]

\* a 5 x 3 frame cut into 2 x 2 tiles with overlap 1 on both axes: a grid
\* of 4 x 2 tiles
C28_Witness ==
    /\ TileReturned /\ ~TileDiscards
    /\ src.width = 5 /\ src.height = 3
    /\ TileArgs[1] = 2 /\ TileArgs[2] = 2 /\ TileArgs[3] = 1 /\ TileArgs[4] = 1
    /\ SeenTilesX = 4 /\ SeenTilesY = 2

-----------------------------------------------------------------------------
(* Claim about the Pad Record across tile, checked under SpecChain.        *)

\* the position in hist of the tile call, 0 before it
ChainTileAt ==
    IF \E k \in 1..Len(hist) : hist[k].op = "tile"
    THEN CHOOSE k \in 1..Len(hist) : hist[k].op = "tile"
    ELSE 0

ChainPads == ChainTileAt > 0 /\ hist[ChainTileAt].args[5] # StrMode("discard")

\* C29: the Pad Record on every frame tile returns under a non-discard
\* padding is the one on the clip it was given, none if that had none; auto
\* crop of the auto untile of the tiles of a padded clip returns the
\* dimensions before pad, and without a pad it raises the missing-record
\* error.
C29_PadRecordAcrossTile ==
    /\ (ChainPads /\ Len(hist) = ChainTileAt /\ cur.err = "") =>
          \A n \in 1..NumFrames(cur) :
              cur.frames[n].props.pad = hist[ChainTileAt].args[1].frames[1].props.pad
    /\ (ChainPads /\ Last(hist).op = "untile") => cur.err = ""
    /\ (ChainPads /\ Last(hist).op = "crop") =>
          IF hist[1].op = "pad"
          THEN cur.err = "" /\ cur.width = src.width /\ cur.height = src.height
          ELSE cur.err = "KeyError" /\ cur.frames = <<>>

\* a clip padded on the left, tiled with padding of its own on the right,
\* untiled and cropped back to its size
C29_Witness ==
    /\ Len(hist) = 4 /\ Last(hist).op = "crop" /\ ChainPads
    /\ hist[1].args[1] > 0
    /\ hist[2].args[1].width % (hist[2].args[2] - hist[2].args[4]) # 0
    /\ hist[2].args[1].width > hist[2].args[2]
    /\ cur.err = "" /\ cur.width = src.width /\ cur.height = src.height

-----------------------------------------------------------------------------
(* Claim about the number of windows, checked under SpecWin.               *)

\* C30: with 0 <= O < L and a supported non-discard padding, window emits
\* 1 window when N <= L and 1 + ceil((N - L) / (L - O)) otherwise, and no
\* window starts after an earlier one has reached the last frame.
C30_WindowCount ==
    (/\ WindowReturned
     /\ WinArgs[2] >= 0 /\ WinArgs[2] < WinArgs[1]
     /\ SupportedPadding(WinArgs[3]) /\ WinArgs[3] # StrMode("discard")) =>
        LET length == WinArgs[1]
            stride == WinArgs[1] - WinArgs[2]
        IN  /\ Len(EmittedWindows) = ChunkCount(NumFrames(src), length, stride)
            /\ \A k \in 2..Len(EmittedWindows) :
                  (k - 2) * stride + length < NumFrames(src)

====
